---- MODULE Spec2Model ----
(***************************************************************************)
(* A model of md-lsp: the document store (state.rs), the wiki-link pass    *)
(* and the link resolver (links.rs), the tree searches (ast.rs) and the    *)
(* definition / references / rename queries built on them.                 *)
(*                                                                         *)
(* Text is a sequence of one-character strings, so that the code's string  *)
(* operations (starts_with, split_once, replace, to_lowercase, len) are    *)
(* computed and not assumed.  An Option is a sequence of length 0 or 1.    *)
(***************************************************************************)
EXTENDS Integers, Sequences, FiniteSets, TLC

VARIABLES md_files, workspace_folder, req, res

vars == <<md_files, workspace_folder, req, res>>

None == <<>>

Some(x) == <<x>>

(***************************************************************************)
(* String operations of the Rust standard library, on character sequences  *)
(***************************************************************************)
starts_with(s, p) == Len(s) >= Len(p) /\ SubSeq(s, 1, Len(p)) = p

ends_with(s, p) == Len(s) >= Len(p) /\ SubSeq(s, Len(s) - Len(p) + 1, Len(s)) = p

\* str::contains for a two-character pattern
contains(s, p) == \E i \in 1..(Len(s) - 1) : s[i] = p[1] /\ s[i + 1] = p[2]

\* index of the first occurrence of the character c in s, 0 when there is none
find_char(s, c) ==
    IF \E i \in 1..Len(s) : s[i] = c
    THEN CHOOSE i \in 1..Len(s) : s[i] = c /\ \A j \in 1..(i - 1) : s[j] # c
    ELSE 0

\* str::split_once(c): None, or Some(<<before, after>>) around the first c
split_once(s, c) ==
    LET i == find_char(s, c)
    IN  IF i = 0 THEN None
        ELSE Some(<<SubSeq(s, 1, i - 1), SubSeq(s, i + 1, Len(s))>>)

\* str::replace(from, "") for a single character
remove_char(s, c) == SelectSeq(s, LAMBDA x : x # c)

\* str::replace(from, to) for single characters
replace_char(s, from, to) == [i \in 1..Len(s) |-> IF s[i] = from THEN to ELSE s[i]]

lower_char(c) ==
    CASE c = "A" -> "a"
      [] c = "B" -> "b"
      [] c = "C" -> "c"
      [] c = "H" -> "h"
      [] OTHER -> c

to_lowercase(s) == [i \in 1..Len(s) |-> lower_char(s[i])]

\* the slug of a heading text: value.to_lowercase().replace(' ', "-")
slug(s) == replace_char(to_lowercase(s), " ", "-")

MD == <<".", "m", "d">>

HTTP == <<"h", "t", "t", "p">>

(***************************************************************************)
(* links.rs: url_decode.  percent_decode turns every '%' followed by two   *)
(* hex digits into one byte and copies everything else; decode_utf8_lossy  *)
(* turns a byte that is no valid UTF-8 into U+FFFD.                        *)
(***************************************************************************)
HexDigits ==
    {"0", "1", "2", "3", "4", "5", "6", "7", "8", "9",
     "a", "b", "c", "d", "e", "f", "A", "B", "C", "D", "E", "F"}

hex_val(c) ==
    CASE c = "0" -> 0 [] c = "1" -> 1 [] c = "2" -> 2 [] c = "3" -> 3
      [] c = "4" -> 4 [] c = "5" -> 5 [] c = "6" -> 6 [] c = "7" -> 7
      [] c = "8" -> 8 [] c = "9" -> 9
      [] c \in {"a", "A"} -> 10
      [] c \in {"b", "B"} -> 11
      [] c \in {"c", "C"} -> 12
      [] c \in {"d", "D"} -> 13
      [] c \in {"e", "E"} -> 14
      [] c \in {"f", "F"} -> 15

ReplacementChar == "U+FFFD"

\* the character of a decoded byte; bytes of ASCII characters the model
\* never writes are kept apart as "U+00xx"
byte_char(b) ==
    CASE b = 32 -> " "
      [] b = 35 -> "#"
      [] b = 45 -> "-"
      [] b = 48 -> "0"
      [] b = 50 -> "2"
      [] b = 51 -> "3"
      [] b = 98 -> "b"
      [] b >= 128 -> ReplacementChar
      [] OTHER -> "U+00xx"

RECURSIVE percent_decode(_)
percent_decode(s) ==
    IF s = <<>> THEN <<>>
    ELSE IF s[1] = "%" /\ Len(s) >= 3 /\ s[2] \in HexDigits /\ s[3] \in HexDigits
         THEN <<byte_char(16 * hex_val(s[2]) + hex_val(s[3]))>>
                  \o percent_decode(SubSeq(s, 4, Len(s)))
         ELSE <<s[1]>> \o percent_decode(Tail(s))

url_decode(s) == percent_decode(s)

(***************************************************************************)
(* markdown::mdast::Node.  Every node is a record of the same shape; the   *)
(* fields a variant does not have stay at their defaults.                  *)
(***************************************************************************)
Point(line, column) == [line |-> line, column |-> column]

Position(sl, sc, el, ec) == [start |-> Point(sl, sc), end |-> Point(el, ec)]

Node(type, position, children) ==
    [type |-> type, position |-> position, children |-> children,
     value |-> <<>>, url |-> <<>>, title |-> None, identifier |-> <<>>,
     depth |-> 0]

Text(value, position) == [Node("Text", position, <<>>) EXCEPT !.value = value]

Link(url, title, position, children) ==
    [Node("Link", position, children) EXCEPT !.url = url, !.title = title]

\* Node::children(): Some for the variants that own children
ParentTypes ==
    {"Root", "Paragraph", "Heading", "Emphasis", "Link", "LinkReference",
     "FootnoteDefinition"}

has_children(node) == node.type \in ParentTypes

(***************************************************************************)
(* The source text of a document and its parse.  A buffer is a sequence of *)
(* blocks separated by blank lines:                                        *)
(*   heading   "#"*depth " " inlines                                       *)
(*   para      inlines                                                     *)
(*   def       "[" id "]: " url                                            *)
(*   fndef     "[^" id "]: " inlines                                       *)
(* and an inline is one of                                                 *)
(*   text      value                                                       *)
(*   emph      "*" value "*"                                               *)
(*   link      "[" value "](" url ")"                                      *)
(*   ref       "[" value "][" id "]"   or   "[*" value "*][" id "]"        *)
(*   fnref     "[^" id "]"                                                 *)
(* where the value of an inline of a paragraph may hold line breaks.       *)
(* to_mdast gives the tree markdown::to_mdast builds for that text, with   *)
(* the 1-indexed positions of the parser (end column exclusive).           *)
(***************************************************************************)
Inline(k, value, url, id, plain) ==
    [k |-> k, value |-> value, url |-> url, id |-> id, plain |-> plain]

IText(value) == Inline("text", value, <<>>, <<>>, TRUE)

IEmph(value) == Inline("emph", value, <<>>, <<>>, TRUE)

ILink(value, url) == Inline("link", value, url, <<>>, TRUE)

IRef(value, id, plain) == Inline("ref", value, <<>>, id, plain)

IFnRef(id) == Inline("fnref", <<>>, <<>>, id, TRUE)

Block(k, depth, inl, id, url) ==
    [k |-> k, depth |-> depth, inl |-> inl, id |-> id, url |-> url]

BHeading(depth, inl) == Block("heading", depth, inl, <<>>, <<>>)

BPara(inl) == Block("para", 0, inl, <<>>, <<>>)

BDef(id, url) == Block("def", 0, <<>>, id, url)

BFnDef(id, inl) == Block("fndef", 0, inl, id, <<>>)

\* the point behind the text s written from point p: a line break in s (a
\* soft break of the paragraph) starts the next line at column 1
RECURSIVE advance(_, _)
advance(p, s) ==
    IF s = <<>> THEN p
    ELSE advance(IF Head(s) = "\n" THEN Point(p.line + 1, 1)
                 ELSE Point(p.line, p.column + 1),
                 Tail(s))

right(p, n) == Point(p.line, p.column + n)

\* the point behind an inline written from point p
inline_end(i, p) ==
    CASE i.k = "text" -> advance(p, i.value)
      [] i.k = "emph" -> right(advance(right(p, 1), i.value), 1)
      [] i.k = "link" -> right(advance(right(p, 1), i.value), Len(i.url) + 3)
      [] i.k = "ref" ->
           right(advance(right(p, IF i.plain THEN 1 ELSE 2), i.value),
                 Len(i.id) + 3 + (IF i.plain THEN 0 ELSE 1))
      [] i.k = "fnref" -> right(p, Len(i.id) + 3)

inline_node(i, p) ==
    LET pos == Some([start |-> p, end |-> inline_end(i, p)])
        txt(q) == Text(i.value, Some([start |-> q, end |-> advance(q, i.value)]))
        em(q) == Node("Emphasis",
                      Some([start |-> q, end |-> right(advance(right(q, 1), i.value), 1)]),
                      <<txt(right(q, 1))>>)
    IN  CASE i.k = "text" -> txt(p)
          [] i.k = "emph" -> em(p)
          [] i.k = "link" -> Link(i.url, None, pos, <<txt(right(p, 1))>>)
          [] i.k = "ref" ->
               [Node("LinkReference", pos,
                     IF i.plain THEN <<txt(right(p, 1))>> ELSE <<em(right(p, 1))>>)
                   EXCEPT !.identifier = i.id]
          [] i.k = "fnref" ->
               [Node("FootnoteReference", pos, <<>>) EXCEPT !.identifier = i.id]

RECURSIVE inline_nodes(_, _)
inline_nodes(inl, p) ==
    IF inl = <<>> THEN <<>>
    ELSE <<inline_node(Head(inl), p)>>
             \o inline_nodes(Tail(inl), inline_end(Head(inl), p))

RECURSIVE inlines_end(_, _)
inlines_end(inl, p) ==
    IF inl = <<>> THEN p ELSE inlines_end(Tail(inl), inline_end(Head(inl), p))

\* the point behind a block that starts on a line
block_end(b, line) ==
    CASE b.k = "heading" -> inlines_end(b.inl, Point(line, b.depth + 2))
      [] b.k = "para" -> inlines_end(b.inl, Point(line, 1))
      [] b.k = "def" -> Point(line, 1 + Len(b.id) + Len(b.url) + 4)
      [] b.k = "fndef" -> inlines_end(b.inl, Point(line, Len(b.id) + 6))

block_node(b, line) ==
    LET pos == Some([start |-> Point(line, 1), end |-> block_end(b, line)])
    IN  CASE b.k = "heading" ->
               [Node("Heading", pos, inline_nodes(b.inl, Point(line, b.depth + 2)))
                   EXCEPT !.depth = b.depth]
          [] b.k = "para" -> Node("Paragraph", pos, inline_nodes(b.inl, Point(line, 1)))
          [] b.k = "def" ->
               [Node("Definition", pos, <<>>)
                   EXCEPT !.identifier = b.id, !.url = b.url]
          [] b.k = "fndef" ->
               [Node("FootnoteDefinition", pos,
                     <<Node("Paragraph",
                            Some([start |-> Point(line, Len(b.id) + 6),
                                  end |-> block_end(b, line)]),
                            inline_nodes(b.inl, Point(line, Len(b.id) + 6)))>>)
                   EXCEPT !.identifier = b.id]

\* the line block i of a buffer starts on: a blank line after every block
RECURSIVE block_line(_, _)
block_line(buffer, i) ==
    IF i = 1 THEN 1
    ELSE block_end(buffer[i - 1], block_line(buffer, i - 1)).line + 2

to_mdast(buffer) ==
    LET n == Len(buffer)
        last == IF n = 0 THEN Point(1, 1)
                ELSE block_end(buffer[n], block_line(buffer, n))
    IN  Node("Root", Some([start |-> Point(1, 1), end |-> last]),
             [i \in 1..n |-> block_node(buffer[i], block_line(buffer, i))])

\* the text of an inline, of a block and of a buffer: what the positions
\* above are the positions of
inline_text(i) ==
    CASE i.k = "text" -> i.value
      [] i.k = "emph" -> <<"*">> \o i.value \o <<"*">>
      [] i.k = "link" -> <<"[">> \o i.value \o <<"]", "(">> \o i.url \o <<")">>
      [] i.k = "ref" ->
           (IF i.plain THEN <<"[">> \o i.value ELSE <<"[", "*">> \o i.value \o <<"*">>)
               \o <<"]", "[">> \o i.id \o <<"]">>
      [] i.k = "fnref" -> <<"[", "^">> \o i.id \o <<"]">>

RECURSIVE inlines_text(_)
inlines_text(inl) ==
    IF inl = <<>> THEN <<>> ELSE inline_text(Head(inl)) \o inlines_text(Tail(inl))

block_text(b) ==
    CASE b.k = "heading" -> [k \in 1..b.depth |-> "#"] \o <<" ">> \o inlines_text(b.inl)
      [] b.k = "para" -> inlines_text(b.inl)
      [] b.k = "def" -> <<"[">> \o b.id \o <<"]", ":", " ">> \o b.url
      [] b.k = "fndef" -> <<"[", "^">> \o b.id \o <<"]", ":", " ">> \o inlines_text(b.inl)

RECURSIVE md_buffer(_)
md_buffer(buffer) ==
    IF buffer = <<>> THEN <<>>
    ELSE IF Len(buffer) = 1 THEN block_text(buffer[1])
    ELSE block_text(buffer[1]) \o <<"\n", "\n">> \o md_buffer(Tail(buffer))

(***************************************************************************)
(* links.rs: the wiki-link pass                                            *)
(***************************************************************************)
\* index of the first i >= from with s[i], s[i+1] = p[1], p[2]; 0 when none
find_sub(s, p, from) ==
    LET hits == {i \in from..(Len(s) - 1) : s[i] = p[1] /\ s[i + 1] = p[2]}
    IN  IF hits = {} THEN 0 ELSE CHOOSE i \in hits : \A j \in hits : i <= j

\* str::lines(): split at "\n"; a final empty line is not a line
RECURSIVE lines(_)
lines(s) ==
    LET i == find_char(s, "\n")
    IN  IF s = <<>> THEN <<>>
        ELSE IF i = 0 THEN <<s>>
        ELSE <<SubSeq(s, 1, i - 1)>> \o lines(SubSeq(s, i + 1, Len(s)))

\* re.captures_iter(line) for \[\[([\s\S]*?)\]\]: leftmost "[[", then the
\* nearest "]]" after it; the next search starts behind the match
RECURSIVE captures_iter(_, _, _)
captures_iter(line, from, line_number) ==
    LET i == find_sub(line, <<"[", "[">>, from)
        j == IF i = 0 THEN 0 ELSE find_sub(line, <<"]", "]">>, i + 2)
    IN  IF i = 0 \/ j = 0 THEN <<>>
        ELSE <<[content |-> SubSeq(line, i + 2, j - 1),
                start_position |-> (i + 1) + 1,
                line_number |-> line_number]>>
                 \o captures_iter(line, j + 2, line_number)

RECURSIVE extract_lines(_, _)
extract_lines(ls, line_number) ==
    IF ls = <<>> THEN <<>>
    ELSE captures_iter(Head(ls), 1, line_number)
             \o extract_lines(Tail(ls), line_number + 1)

extract_wiki_links(input) == extract_lines(lines(input), 0)

link_text_node(w, start_line) ==
    Text(<<>>, Some(Position(start_line + w.line_number, w.start_position,
                             start_line + w.line_number, w.start_position + 0)))

link_node(w, start_line) ==
    Link(w.content, Some("wikilink"),
         Some(Position(start_line + w.line_number, w.start_position - 2,
                       start_line + w.line_number,
                       w.start_position + Len(w.content) + 2)),
         <<link_text_node(w, start_line)>>)

RECURSIVE wiki_links_of(_)
wiki_links_of(children) ==
    IF children = <<>> THEN <<>>
    ELSE LET t == Head(children)
             found ==
                 IF t.type = "Text" /\ contains(t.value, <<"[", "[">>)
                                    /\ contains(t.value, <<"]", "]">>)
                 THEN LET ex == extract_wiki_links(t.value)
                      IN  [k \in 1..Len(ex) |->
                              link_node(ex[k], t.position[1].start.line)]
                 ELSE <<>>
         IN  found \o wiki_links_of(Tail(children))

\* parse_wiki_links that does not go on into the children
parse_wiki_links_flat(node) ==
    IF ~has_children(node) THEN node
    ELSE [node EXCEPT !.children = node.children \o wiki_links_of(node.children)]

RECURSIVE parse_wiki_links(_)
parse_wiki_links(node) ==
    IF ~has_children(node) THEN node
    ELSE LET all == node.children \o wiki_links_of(node.children)
         IN  [node EXCEPT !.children =
                 [k \in 1..Len(all) |-> parse_wiki_links(all[k])]]

(***************************************************************************)
(* ast.rs: AstIterator and the searches built on it                        *)
(***************************************************************************)
reverse(s) == [i \in 1..Len(s) |-> s[Len(s) + 1 - i]]

\* AstIterator::next with the children pushed as they stand
RECURSIVE ast_iterator_children_not_reversed(_)
ast_iterator_children_not_reversed(stack) ==
    IF stack = <<>> THEN <<>>
    ELSE LET node == stack[Len(stack)]
             rest == SubSeq(stack, 1, Len(stack) - 1)
         IN  <<node>> \o ast_iterator_children_not_reversed(
                 IF has_children(node) THEN rest \o node.children
                 ELSE rest)

\* AstIterator::next, run to the end: pop the top of the stack, push the
\* node's children reversed, yield the node
RECURSIVE ast_iterator(_)
ast_iterator(stack) ==
    IF stack = <<>> THEN <<>>
    ELSE LET node == stack[Len(stack)]
             rest == SubSeq(stack, 1, Len(stack) - 1)
         IN  <<node>> \o ast_iterator(
                 IF has_children(node) THEN rest \o reverse(node.children)
                 ELSE rest)

\* Iterator::find / find_map: the first of the yielded nodes that satisfy
\* the predicate
find_first(hits) == IF hits = <<>> THEN None ELSE Some(hits[1])

\* heading_matches by the raw text alone
heading_matches_raw_only(node, target) ==
    /\ node.type = "Heading"
    /\ node.children # <<>>
    /\ node.children[1].type = "Text"
    /\ node.children[1].value = target

heading_matches(node, target) ==
    /\ node.type = "Heading"
    /\ node.children # <<>>
    /\ node.children[1].type = "Text"
    /\ \/ node.children[1].value = target
       \/ slug(node.children[1].value) = slug(target)

\* get_heading_text: the value of the first Text among the heading's children
get_heading_text(heading) ==
    LET hits == {i \in 1..Len(heading.children) : heading.children[i].type = "Text"}
    IN  IF hits = {} THEN None
        ELSE Some(heading.children[CHOOSE i \in hits : \A j \in hits : i <= j].value)

find_heading_for_link_identifier(ast, link_identifier) ==
    LET target == remove_char(link_identifier, "#")
    IN  find_first(SelectSeq(ast_iterator(<<ast>>),
                             LAMBDA n : heading_matches(n, target)))

find_heading_for_link(ast, link) ==
    LET target == remove_char(link.url, "#")
    IN  find_first(SelectSeq(ast_iterator(<<ast>>),
                             LAMBDA n : heading_matches(n, target)))

(***************************************************************************)
(* state.rs: the store.  A Url is a scheme and a path of components; the   *)
(* keys of md_files are Urls.  The HashMap's iteration order is not fixed  *)
(* by the code: every operation that iterates takes it as `order`.         *)
(***************************************************************************)
Url(scheme, path) == [scheme |-> scheme, path |-> path]

State == [md_files |-> md_files, workspace_folder |-> workspace_folder]

MdFile(buffer, ast) == [buffer |-> buffer, ast |-> ast]

\* the orders a HashMap with these keys may iterate in
Orders(keys) ==
    {o \in [1..Cardinality(keys) -> keys] :
        \A i, j \in 1..Cardinality(keys) : o[i] = o[j] => i = j}

\* ast_for_uri with a document of no text taken for a missing one
ast_for_uri_empty_is_missing(state, uri) ==
    IF uri \in DOMAIN state.md_files /\ state.md_files[uri].buffer # <<>>
    THEN Some(state.md_files[uri].ast)
    ELSE None

ast_for_uri(state, uri) ==
    IF uri \in DOMAIN state.md_files THEN Some(state.md_files[uri].ast) ELSE None

buffer_for_uri(state, uri) ==
    IF uri \in DOMAIN state.md_files THEN Some(state.md_files[uri].buffer) ELSE None

\* Url::to_file_path
to_file_path(url) == IF url.scheme = "file" THEN Some(url.path) ELSE None

\* Path::strip_prefix, by whole components
strip_prefix(to, from) ==
    IF Len(to) >= Len(from) /\ SubSeq(to, 1, Len(from)) = from
    THEN Some(SubSeq(to, Len(from) + 1, Len(to)))
    ELSE None

\* Path::to_string_lossy of a relative path
RECURSIVE to_string_lossy(_)
to_string_lossy(rel) ==
    IF rel = <<>> THEN <<>>
    ELSE IF Len(rel) = 1 THEN rel[1]
    ELSE rel[1] \o <<"/">> \o to_string_lossy(Tail(rel))

path_from_root(from, to) ==
    LET rel == strip_prefix(to, from)
    IN  IF rel = None THEN None ELSE Some(<<"/">> \o to_string_lossy(rel[1]))

RECURSIVE file_list(_, _)
file_list(state, keys) ==
    IF keys = <<>> THEN <<>>
    ELSE LET url == Head(keys)
             wsf == state.workspace_folder
             file_path == to_file_path(url)
             rel == IF wsf = None \/ file_path = None THEN None
                    ELSE path_from_root(wsf[1].uri.path, file_path[1])
         IN  (IF rel = None THEN <<>> ELSE <<[url |-> url, relative_path |-> rel[1]]>>)
                 \o file_list(state, Tail(keys))

get_file_list(state, order) == file_list(state, order)

(***************************************************************************)
(* links.rs: resolve_link                                                  *)
(***************************************************************************)
ResolvedLink(kind, link, file_uri, heading) ==
    [kind |-> kind, link |-> link, file_uri |-> file_uri, heading |-> heading]

Http == ResolvedLink("Http", None, None, None)

Unresolved == ResolvedLink("Unresolved", None, None, None)

\* Option::unwrap on None
Panic == ResolvedLink("Panic", None, None, None)

is_wikilink(link) == link.title = Some("wikilink")

\* resolve_internal that keeps the last document with a match, not the first
resolve_internal_last(link, state, order) ==
    LET hits == {i \in 1..Len(order) :
                    find_heading_for_link(state.md_files[order[i]].ast, link) # None}
    IN  IF hits = {} THEN Unresolved
        ELSE LET i == CHOOSE k \in hits : \A j \in hits : k >= j
             IN  ResolvedLink("InternalHeading", Some(link), Some(order[i]),
                     find_heading_for_link(state.md_files[order[i]].ast, link))

\* Some(("", _)): the first stored document, in iteration order, with a
\* matching heading
resolve_internal(link, state, order) ==
    LET hits == {i \in 1..Len(order) :
                    find_heading_for_link(state.md_files[order[i]].ast, link) # None}
    IN  IF hits = {} THEN Unresolved
        ELSE LET i == CHOOSE k \in hits : \A j \in hits : k <= j
             IN  ResolvedLink("InternalHeading", Some(link), Some(order[i]),
                     find_heading_for_link(state.md_files[order[i]].ast, link))

\* heading_link_file that appends ".md" for every kind of link
heading_link_file_append(link, file_ref_text) ==
    IF ends_with(url_decode(file_ref_text), MD) THEN url_decode(file_ref_text)
    ELSE url_decode(file_ref_text) \o MD

\* the file a `file#heading` target names
heading_link_file(link, file_ref_text) ==
    IF is_wikilink(link)
    THEN IF ends_with(file_ref_text, MD) THEN file_ref_text ELSE file_ref_text \o MD
    ELSE url_decode(file_ref_text)

\* file_link_file that leaves the target as written
file_link_file_as_written(link) == link.url

\* the file a target without '#' names
file_link_file(link) == IF ends_with(link.url, MD) THEN link.url ELSE link.url \o MD

\* resolve_external without the fall back to File
resolve_external_no_fallback(link, state, order, file_ref_text, heading_ref_text) ==
    LET file == heading_link_file(link, file_ref_text)
        list == get_file_list(state, order)
        hits == {i \in 1..Len(list) : list[i].relative_path = file}
    IN  IF hits = {} THEN Unresolved
        ELSE LET url == list[CHOOSE k \in hits : \A j \in hits : k <= j].url
                 ast == ast_for_uri(state, url)
             IN  IF ast = None THEN Panic
                 ELSE LET heading ==
                              find_heading_for_link_identifier(ast[1], heading_ref_text)
                      IN  IF heading # None
                          THEN ResolvedLink("ExternalHeading", Some(link), Some(url), heading)
                          ELSE Unresolved

\* Some((file_ref_text, heading_ref_text))
resolve_external(link, state, order, file_ref_text, heading_ref_text) ==
    LET file == heading_link_file(link, file_ref_text)
        list == get_file_list(state, order)
        hits == {i \in 1..Len(list) : list[i].relative_path = file}
    IN  IF hits = {} THEN Unresolved
        ELSE LET url == list[CHOOSE k \in hits : \A j \in hits : k <= j].url
                 ast == ast_for_uri(state, url)
             IN  IF ast = None THEN Panic
                 ELSE LET heading ==
                              find_heading_for_link_identifier(ast[1], heading_ref_text)
                      IN  IF heading # None
                          THEN ResolvedLink("ExternalHeading", Some(link), Some(url), heading)
                          ELSE ResolvedLink("File", Some(link), Some(url), None)

\* None
resolve_file(link, state, order) ==
    LET file == file_link_file(link)
        list == get_file_list(state, order)
        hits == {i \in 1..Len(list) : list[i].relative_path = file}
    IN  IF hits = {} THEN Unresolved
        ELSE ResolvedLink("File", Some(link),
                 Some(list[CHOOSE k \in hits : \A j \in hits : k <= j].url), None)

\* resolve_link that looks for "http" only in a target without '#'
resolve_link_http_late(link, state, order) ==
    LET parts == split_once(link.url, "#")
    IN  IF parts = None
        THEN IF starts_with(link.url, HTTP) THEN Http ELSE resolve_file(link, state, order)
        ELSE IF parts[1][1] = <<>> THEN resolve_internal(link, state, order)
        ELSE resolve_external(link, state, order, parts[1][1], parts[1][2])

resolve_link(link, state, order) ==
    IF starts_with(link.url, HTTP) THEN Http
    ELSE LET parts == split_once(link.url, "#")
         IN  IF parts = None THEN resolve_file(link, state, order)
             ELSE IF parts[1][1] = <<>> THEN resolve_internal(link, state, order)
             ELSE resolve_external(link, state, order, parts[1][1], parts[1][2])

(***************************************************************************)
(* state.rs: the operations that change the store                          *)
(***************************************************************************)
\* set_buffer that leaves a document that is already stored as it is
set_buffer_insert_only(state, uri, buffer) ==
    IF uri \in DOMAIN state.md_files THEN state.md_files
    ELSE [u \in DOMAIN state.md_files \cup {uri} |->
             IF u = uri THEN MdFile(buffer, to_mdast(buffer)) ELSE state.md_files[u]]

set_buffer(state, uri, buffer) ==
    LET ast == to_mdast(buffer)
    IN  IF uri \in DOMAIN state.md_files
        THEN [state.md_files EXCEPT ![uri] = MdFile(buffer, parse_wiki_links(ast))]
        ELSE [u \in DOMAIN state.md_files \cup {uri} |->
                 IF u = uri THEN MdFile(buffer, ast) ELSE state.md_files[u]]

\* Path::extension() == "md"
has_md_extension(path) == path # <<>> /\ ends_with(path[Len(path)], MD)
                              /\ Len(path[Len(path)]) > Len(MD)

\* find_md_files: the files below the folders whose extension is md;
\* disk maps the paths of the files on disk to their text
find_md_files(workspace_folders, disk) ==
    {path \in DOMAIN disk :
        /\ has_md_extension(path)
        /\ \E f \in workspace_folders :
              /\ to_file_path(f.uri) # None
              /\ strip_prefix(path, to_file_path(f.uri)[1]) # None}

index_md_files(workspace_folders, disk) ==
    LET found == find_md_files(workspace_folders, disk)
    IN  [uri \in {Url("file", path) : path \in found} |->
            MdFile(disk[uri.path], parse_wiki_links(to_mdast(disk[uri.path])))]

(***************************************************************************)
(* ast.rs: the searches of the query handlers                              *)
(***************************************************************************)
\* the closure of find_linkable_for_position: the node is of the linkable
\* family and the position is inside its span
linkable_contains(node, line, character) ==
    /\ node.type \in {"Heading", "Link", "LinkReference", "FootnoteReference"}
    /\ node.position # None
    /\ line + 1 >= node.position[1].start.line
    /\ line + 1 <= node.position[1].end.line
    /\ character + 1 >= node.position[1].start.column
    /\ character + 1 <= node.position[1].end.column

find_linkable_for_position(ast, line, character) ==
    find_first(SelectSeq(ast_iterator(<<ast>>), LAMBDA node :
        linkable_contains(node, line, character)))

\* the closure of find_definition_for_position: no upper bound on the column
definition_contains(node, line, character) ==
    /\ node.type \in {"Heading", "Definition", "FootnoteDefinition"}
    /\ node.position # None
    /\ line + 1 >= node.position[1].start.line
    /\ line + 1 <= node.position[1].end.line
    /\ character + 1 >= node.position[1].start.column

find_definition_for_position(ast, line, character) ==
    find_first(SelectSeq(ast_iterator(<<ast>>), LAMBDA node :
        definition_contains(node, line, character)))

\* traverse_ast!: the first Some among the results for the children
traverse_ast(results) ==
    LET hits == SelectSeq(results, LAMBDA r : r # None)
    IN  IF hits = <<>> THEN None ELSE hits[1]

RECURSIVE find_definition_for_identifier(_, _)
find_definition_for_identifier(node, identifier) ==
    IF node.type = "Definition" /\ node.identifier = identifier THEN Some(node)
    ELSE IF has_children(node)
    THEN traverse_ast([i \in 1..Len(node.children) |->
             find_definition_for_identifier(node.children[i], identifier)])
    ELSE None

RECURSIVE find_foot_definition_for_identifier(_, _)
find_foot_definition_for_identifier(node, identifier) ==
    IF node.type = "FootnoteDefinition" /\ node.identifier = identifier THEN Some(node)
    ELSE IF has_children(node)
    THEN traverse_ast([i \in 1..Len(node.children) |->
             find_foot_definition_for_identifier(node.children[i], identifier)])
    ELSE None

\* Vec::extend over the children: the concatenation of the results
RECURSIVE extend(_)
extend(vecs) == IF vecs = <<>> THEN <<>> ELSE Head(vecs) \o extend(Tail(vecs))

RECURSIVE find_link_references_for_identifier(_, _)
find_link_references_for_identifier(node, identifier) ==
    IF node.type = "LinkReference"
    THEN IF node.identifier = identifier THEN <<node>> ELSE <<>>
    ELSE IF has_children(node)
    THEN extend([i \in 1..Len(node.children) |->
             find_link_references_for_identifier(node.children[i], identifier)])
    ELSE <<>>

RECURSIVE find_footnote_references_for_identifier(_, _)
find_footnote_references_for_identifier(node, identifier) ==
    IF node.type = "FootnoteReference"
    THEN IF node.identifier = identifier THEN <<node>> ELSE <<>>
    ELSE IF has_children(node)
    THEN extend([i \in 1..Len(node.children) |->
             find_footnote_references_for_identifier(node.children[i], identifier)])
    ELSE <<>>

RECURSIVE find_links(_)
find_links(node) ==
    IF node.type = "Link" THEN <<node>>
    ELSE IF has_children(node)
    THEN extend([i \in 1..Len(node.children) |-> find_links(node.children[i])])
    ELSE <<>>

(***************************************************************************)
(* What a handler hands back: the Option it returns, or the panic of an    *)
(* unwrap on a document that is not in the store.                          *)
(***************************************************************************)
Returned(value) == [panic |-> FALSE, value |-> value]

Panicked == [panic |-> TRUE, value |-> None]

LspPosition(line, character) == [line |-> line, character |-> character]

Range(start, end) == [start |-> start, end |-> end]

Location(uri, range) == [uri |-> uri, range |-> range]

TextEdit(range, new_text) == [range |-> range, new_text |-> new_text]

(***************************************************************************)
(* definition.rs                                                           *)
(***************************************************************************)
range_from_position(position) ==
    Range(LspPosition(position.start.line - 1, position.start.column - 1),
          LspPosition(position.end.line - 1, position.end.column - 1))

range_zero == Range(LspPosition(0, 0), LspPosition(0, 0))

def_handle_link_to_heading(link, state, order) ==
    LET resolved == resolve_link(link, state, order)
    IN  CASE resolved.kind = "Panic" -> Panicked
          [] resolved.kind = "File" ->
               Returned(Some(Location(resolved.file_uri[1], range_zero)))
          [] resolved.kind \in {"InternalHeading", "ExternalHeading"} ->
               IF resolved.heading[1].position = None THEN Returned(None)
               ELSE Returned(Some(Location(resolved.file_uri[1],
                        range_from_position(resolved.heading[1].position[1]))))
          [] OTHER -> Returned(None)

handle_link_ref(req_uri, link_ref, state) ==
    LET req_ast == ast_for_uri(state, req_uri)
    IN  IF req_ast = None THEN Panicked
        ELSE LET def == find_definition_for_identifier(req_ast[1], link_ref.identifier)
             IN  IF def = None \/ def[1].position = None THEN Returned(None)
                 ELSE Returned(Some(Location(req_uri,
                          range_from_position(def[1].position[1]))))

handle_link_footnote(req_uri, foot_ref, state) ==
    LET req_ast == ast_for_uri(state, req_uri)
    IN  IF req_ast = None THEN Panicked
        ELSE LET foot_def ==
                     find_foot_definition_for_identifier(req_ast[1], foot_ref.identifier)
             IN  IF foot_def = None \/ foot_def[1].position = None THEN Returned(None)
                 ELSE Returned(Some(Location(req_uri,
                          range_from_position(foot_def[1].position[1]))))

definition(req_uri, line, character, state, order) ==
    LET req_ast == ast_for_uri(state, req_uri)
    IN  IF req_ast = None THEN Panicked
        ELSE LET node == find_linkable_for_position(req_ast[1], line, character)
             IN  CASE node = None -> Returned(None)
                   [] node # None /\ node[1].type = "Link" ->
                        def_handle_link_to_heading(node[1], state, order)
                   [] node # None /\ node[1].type = "LinkReference" ->
                        handle_link_ref(req_uri, node[1], state)
                   [] node # None /\ node[1].type = "FootnoteReference" ->
                        handle_link_footnote(req_uri, node[1], state)
                   [] OTHER -> Returned(None)

(***************************************************************************)
(* references.rs                                                           *)
(***************************************************************************)
\* the links of one document that resolve to req_heading
heading_refs_of(url, req_heading, state, order) ==
    LET links == find_links(state.md_files[url].ast)
        resolved == [i \in 1..Len(links) |-> resolve_link(links[i], state, order)]
        kept == SelectSeq(resolved, LAMBDA r :
                    /\ r.kind \in {"InternalHeading", "ExternalHeading"}
                    /\ r.heading = Some(req_heading))
    IN  [i \in 1..Len(kept) |-> [uri |-> url, resolved_link |-> kept[i]]]

get_heading_refs(req_heading, state, order) ==
    extend([i \in 1..Len(order) |-> heading_refs_of(order[i], req_heading, state, order)])

\* ResolvedLink::link_position
link_position(resolved_link) ==
    IF resolved_link.kind \in {"File", "InternalHeading", "ExternalHeading"}
    THEN resolved_link.link[1].position
    ELSE None

handle_heading(heading, state, order) ==
    LET refs == SelectSeq(get_heading_refs(heading, state, order), LAMBDA r :
                    link_position(r.resolved_link) # None)
    IN  [i \in 1..Len(refs) |->
            Location(refs[i].uri,
                     range_from_position(link_position(refs[i].resolved_link)[1]))]

\* collect::<Option<Vec<_>>>(): None as soon as one node has no position
collect_locations(nodes, req_uri) ==
    IF \E i \in 1..Len(nodes) : nodes[i].position = None THEN None
    ELSE Some([i \in 1..Len(nodes) |->
                  Location(req_uri, range_from_position(nodes[i].position[1]))])

handle_definition(req_ast, req_uri, def) ==
    collect_locations(find_link_references_for_identifier(req_ast, def.identifier),
                      req_uri)

handle_footnote_definition(req_ast, req_uri, fn_definition) ==
    collect_locations(
        find_footnote_references_for_identifier(req_ast, fn_definition.identifier),
        req_uri)

references(req_uri, line, character, state, order) ==
    LET req_ast == ast_for_uri(state, req_uri)
    IN  IF req_ast = None THEN Panicked
        ELSE LET node == find_definition_for_position(req_ast[1], line, character)
             IN  CASE node = None -> Returned(None)
                   [] node # None /\ node[1].type = "Heading" ->
                        Returned(Some(handle_heading(node[1], state, order)))
                   [] node # None /\ node[1].type = "Definition" ->
                        Returned(handle_definition(req_ast[1], req_uri, node[1]))
                   [] node # None /\ node[1].type = "FootnoteDefinition" ->
                        Returned(handle_footnote_definition(req_ast[1], req_uri, node[1]))
                   [] OTHER -> Returned(None)

(***************************************************************************)
(* rename.rs.  The planned edits are a HashMap<Url, Vec<TextEdit>>: a      *)
(* function from the documents that have edits to their edits.             *)
(***************************************************************************)
\* map.entry(key).or_default().push(value)
entry_or_default_push(map, key, value) ==
    IF key \in DOMAIN map THEN [map EXCEPT ![key] = Append(@, value)]
    ELSE [k \in DOMAIN map \cup {key} |-> IF k = key THEN <<value>> ELSE map[k]]

merge_maps(map1, map2) ==
    [k \in DOMAIN map1 \cup DOMAIN map2 |->
        (IF k \in DOMAIN map1 THEN map1[k] ELSE <<>>)
            \o (IF k \in DOMAIN map2 THEN map2[k] ELSE <<>>)]

rename_range(start_line, end_line, start_char, end_char) ==
    Range(LspPosition(start_line, start_char), LspPosition(end_line, end_char))

get_text_child(children) ==
    LET texts == SelectSeq(children, LAMBDA child : child.type = "Text")
    IN  IF texts = <<>> THEN None ELSE Some(texts[1])

heading_rename_range(heading) ==
    LET text == get_text_child(heading.children)
    IN  IF text = None \/ text[1].position = None THEN None
        ELSE LET pos == text[1].position[1]
             IN  Some(rename_range(pos.start.line - 1, pos.end.line - 1,
                                   pos.start.column - 1, pos.end.column))

link_ref_rename_range(link_ref) ==
    LET text == get_text_child(link_ref.children)
    IN  IF text = None \/ link_ref.position = None THEN None
        ELSE LET link_ref_pos == link_ref.position[1]
             IN  Some(rename_range(link_ref_pos.start.line - 1, link_ref_pos.end.line - 1,
                                   link_ref_pos.start.column + Len(text[1].value) + 2,
                                   link_ref_pos.end.column - 2))

definition_rename_range(def) ==
    IF def.position = None THEN None
    ELSE LET def_pos == def.position[1]
         IN  Some(rename_range(def_pos.start.line - 1, def_pos.end.line - 1,
                               def_pos.start.column,
                               def_pos.start.column + Len(def.identifier)))

footnote_ref_rename_range(footnote_ref) ==
    IF footnote_ref.position = None THEN None
    ELSE LET foot_ref_pos == footnote_ref.position[1]
         IN  Some(rename_range(foot_ref_pos.start.line - 1, foot_ref_pos.end.line - 1,
                               foot_ref_pos.start.column + 1,
                               foot_ref_pos.start.column + Len(footnote_ref.identifier) + 1))

footnote_def_rename_range(footnote_def) ==
    IF footnote_def.position = None THEN None
    ELSE LET foot_def_pos == footnote_def.position[1]
         IN  Some(rename_range(foot_def_pos.start.line - 1, foot_def_pos.start.line - 1,
                               foot_def_pos.start.column + 1,
                               foot_def_pos.start.column + Len(footnote_def.identifier) + 1))

\* find_renameable_for_position that takes a Link for a renameable node too
RECURSIVE find_renameable_or_link_for_position(_, _)
find_renameable_or_link_for_position(node, req_pos) ==
    LET pos == node.position[1]
        here ==
            /\ node.type \in {"Heading", "LinkReference", "Definition",
                              "FootnoteReference", "FootnoteDefinition", "Link"}
            /\ node.position # None
            /\ req_pos.line + 1 >= pos.start.line
            /\ req_pos.line + 1 <= pos.end.line
            /\ req_pos.character + 1 >= pos.start.column
            /\ node.type # "FootnoteDefinition" => req_pos.character + 1 <= pos.end.column
    IN  IF here THEN Some(node)
        ELSE IF has_children(node)
        THEN traverse_ast([i \in 1..Len(node.children) |->
                 find_renameable_or_link_for_position(node.children[i], req_pos)])
        ELSE None

RECURSIVE find_renameable_for_position(_, _)
find_renameable_for_position(node, req_pos) ==
    LET pos == node.position[1]
        here ==
            \/ /\ node.type \in {"Heading", "LinkReference", "Definition",
                                 "FootnoteReference"}
               /\ node.position # None
               /\ req_pos.line + 1 >= pos.start.line
               /\ req_pos.line + 1 <= pos.end.line
               /\ req_pos.character + 1 >= pos.start.column
               /\ req_pos.character + 1 <= pos.end.column
            \/ /\ node.type = "FootnoteDefinition"
               /\ node.position # None
               /\ req_pos.line + 1 >= pos.start.line
               /\ req_pos.line + 1 <= pos.end.line
               /\ req_pos.character + 1 >= pos.start.column
    IN  IF here THEN Some(node)
        ELSE IF has_children(node)
        THEN traverse_ast([i \in 1..Len(node.children) |->
                 find_renameable_for_position(node.children[i], req_pos)])
        ELSE None

\* one edit per node that has a rename range, all under req_uri
fold_edits(ranges, new_name, req_uri) ==
    LET some == SelectSeq(ranges, LAMBDA r : r # None)
    IN  IF some = <<>> THEN <<>>
        ELSE [k \in {req_uri} |-> [i \in 1..Len(some) |-> TextEdit(some[i][1], new_name)]]

\* the references to a heading as rename_heading_refs reads them: the link,
\* the document it is in, and the heading text as the link writes it
FoundLink(resolved_link, uri) ==
    LET parts == split_once(resolved_link.link[1].url, "#")
    IN  [kind |-> resolved_link.kind, link |-> resolved_link.link[1], uri |-> uri,
         heading_text |-> IF parts = None THEN <<>> ELSE parts[1][2]]

RECURSIVE fold_heading_refs(_, _, _)
fold_heading_refs(acc, found, new_name) ==
    IF found = <<>> THEN acc
    ELSE LET link == Head(found).link
             pos == link.position[1]
             shift == IF link.title = Some("wikilink") THEN 1 ELSE 0
             range == rename_range(pos.start.line - 1, pos.end.line - 1,
                          pos.end.column - 2 - Len(Head(found).heading_text) - shift,
                          pos.end.column - 2 - shift)
         IN  fold_heading_refs(
                 IF Head(found).kind \in {"InternalHeading", "ExternalHeading"}
                        /\ link.position # None
                 THEN entry_or_default_push(acc, Head(found).uri, TextEdit(range, new_name))
                 ELSE acc,
                 Tail(found), new_name)

rename_heading_refs(new_name, req_uri, heading, state, order) ==
    LET refs == get_heading_refs(heading, state, order)
    IN  fold_heading_refs(<<>>,
            [i \in 1..Len(refs) |-> FoundLink(refs[i].resolved_link, refs[i].uri)],
            new_name)

rename_definition(new_name, req_uri, link_ref, state) ==
    LET ast == ast_for_uri(state, req_uri)
        def == find_definition_for_identifier(ast[1], link_ref.identifier)
    IN  IF ast = None THEN <<>>
        ELSE IF def = None THEN <<>>
        ELSE fold_edits(<<definition_rename_range(def[1])>>, new_name, req_uri)

rename_link_refs(new_name, req_uri, identifier, state) ==
    LET ast == ast_for_uri(state, req_uri)
        link_refs == find_link_references_for_identifier(ast[1], identifier)
    IN  IF ast = None THEN None
        ELSE Some(fold_edits([i \in 1..Len(link_refs) |->
                                 link_ref_rename_range(link_refs[i])],
                             new_name, req_uri))

rename_footnote_def(new_name, req_uri, footnote_ref, state) ==
    LET ast == ast_for_uri(state, req_uri)
        footnote_def == find_foot_definition_for_identifier(ast[1], footnote_ref.identifier)
    IN  IF ast = None THEN <<>>
        ELSE IF footnote_def = None THEN <<>>
        ELSE fold_edits(<<footnote_def_rename_range(footnote_def[1])>>, new_name, req_uri)

rename_footnote_refs(new_name, req_uri, identifier, state) ==
    LET ast == ast_for_uri(state, req_uri)
        footnote_refs == find_footnote_references_for_identifier(ast[1], identifier)
    IN  IF ast = None THEN None
        ELSE Some(fold_edits([i \in 1..Len(footnote_refs) |->
                                 footnote_ref_rename_range(footnote_refs[i])],
                             new_name, req_uri))

\* the edits of the references, then the edit of the node under the cursor
push_own_edit(changes, range, new_name, req_uri) ==
    IF range = None THEN changes
    ELSE entry_or_default_push(changes, req_uri, TextEdit(range[1], new_name))

rename(new_name, req_uri, req_pos, state, order) ==
    LET ast == ast_for_uri(state, req_uri)
        node == IF ast = None THEN None
                ELSE find_renameable_for_position(ast[1], req_pos)
        n == node[1]
    IN  CASE node = None -> Returned(None)
          [] node # None /\ n.type = "Heading" ->
               Returned(Some(push_own_edit(
                   rename_heading_refs(new_name, req_uri, n, state, order),
                   heading_rename_range(n), new_name, req_uri)))
          [] node # None /\ n.type = "LinkReference" ->
               LET link_ref_changes == rename_link_refs(new_name, req_uri, n.identifier, state)
               IN  IF link_ref_changes = None THEN Returned(None)
                   ELSE Returned(Some(merge_maps(
                            rename_definition(new_name, req_uri, n, state),
                            link_ref_changes[1])))
          [] node # None /\ n.type = "Definition" ->
               LET link_ref_changes == rename_link_refs(new_name, req_uri, n.identifier, state)
               IN  IF link_ref_changes = None THEN Returned(None)
                   ELSE Returned(Some(push_own_edit(link_ref_changes[1],
                            definition_rename_range(n), new_name, req_uri)))
          [] node # None /\ n.type = "FootnoteReference" ->
               LET footnote_ref_changes ==
                       rename_footnote_refs(new_name, req_uri, n.identifier, state)
               IN  IF footnote_ref_changes = None THEN Returned(None)
                   ELSE Returned(Some(merge_maps(
                            rename_footnote_def(new_name, req_uri, n, state),
                            footnote_ref_changes[1])))
          [] node # None /\ n.type = "FootnoteDefinition" ->
               LET footnote_ref_changes ==
                       rename_footnote_refs(new_name, req_uri, n.identifier, state)
               IN  IF footnote_ref_changes = None THEN Returned(None)
                   ELSE Returned(Some(push_own_edit(footnote_ref_changes[1],
                            footnote_def_rename_range(n), new_name, req_uri)))
          [] OTHER -> Panicked

(***************************************************************************)
(* diagnostics.rs.  A message is the text format! gives: the fixed words   *)
(* of the kind, one element each, around the characters put in.            *)
(***************************************************************************)
\* the grave accent the messages put around what they quote
Tick == "'"

BrokenLink(kind, range, message) == [kind |-> kind, range |-> range, message |-> message]

\* no deduplication: every finding of every detection path is kept
unique_keep_all(v) == v

\* Itertools::unique: the first of every run of equal findings
RECURSIVE unique(_)
unique(v) ==
    IF v = <<>> THEN <<>>
    ELSE LET init == unique(SubSeq(v, 1, Len(v) - 1))
             last == v[Len(v)]
         IN  IF \E k \in 1..Len(init) : init[k] = last THEN init
             ELSE Append(init, last)

\* the characters of s from a to b are none of stop, and there is one
run(s, a, b, stop) == a <= b /\ \A k \in a..b : s[k] \notin stop

\* the regular expression re matches s from index i to index e
\*   "ref"       \[([^]]+)\]\[([^]]+)\]
\*   "footnote"  \[(\^\S+)\]
\*   "invalid"   \[[^\]]+]\(([^)]+)\)
is_match(re, s, i, e) ==
    /\ s[i] = "["
    /\ IF re = "footnote"
       THEN /\ i + 3 <= e
            /\ s[i + 1] = "^"
            /\ run(s, i + 2, e - 1, {" "})
            /\ s[e] = "]"
       ELSE \E a \in (i + 2)..(e - 3) :
               /\ run(s, i + 1, a - 1, {"]"})
               /\ s[a] = "]"
               /\ s[a + 1] = (IF re = "ref" THEN "[" ELSE "(")
               /\ run(s, a + 2, e - 1, IF re = "ref" THEN {"]"} ELSE {")"})
               /\ s[e] = (IF re = "ref" THEN "]" ELSE ")")

\* the matches of re in s that start at from or behind it: the leftmost one,
\* as long as the expression can make it, first
match_from(re, s, from) ==
    {m \in (from..Len(s)) \X (from..Len(s)) :
        /\ is_match(re, s, m[1], m[2])
        /\ \A i \in from..Len(s), e \in from..Len(s) :
              is_match(re, s, i, e) => m[1] < i \/ (m[1] = i /\ m[2] >= e)}

\* re.captures_iter(line): the leftmost match, then on behind it
RECURSIVE regex_captures(_, _, _)
regex_captures(re, line, from) ==
    IF match_from(re, line, from) = {} THEN <<>>
    ELSE LET m == CHOOSE c \in match_from(re, line, from) : TRUE
         IN  <<[start |-> m[1] - 1, end |-> m[2], text |-> SubSeq(line, m[1], m[2])]>>
                 \o regex_captures(re, line, m[2] + 1)

\* the matches in the lines of one Text node
RECURSIVE broken_refs_of_lines(_, _, _, _)
broken_refs_of_lines(re, ls, i, pos) ==
    IF ls = <<>> THEN <<>>
    ELSE LET caps == regex_captures(re, Head(ls), 1)
         IN  [k \in 1..Len(caps) |->
                 [range |-> Range(LspPosition(pos.start.line + i - 1,
                                              pos.start.column + caps[k].start - 1),
                                  LspPosition(pos.start.line + i - 1,
                                              pos.start.column + caps[k].end - 1)),
                  text |-> caps[k].text]]
                 \o broken_refs_of_lines(re, Tail(ls), i + 1, pos)

RECURSIVE find_broken_link_ref(_, _)
find_broken_link_ref(node, re) ==
    (IF has_children(node)
     THEN extend([k \in 1..Len(node.children) |->
                     find_broken_link_ref(node.children[k], re)])
     ELSE <<>>)
        \o (IF node.type = "Text" /\ node.position # None
            THEN broken_refs_of_lines(re, lines(node.value), 0, node.position[1])
            ELSE <<>>)

\* the three scans of the whole tree of the requested document.  Their
\* unwrap of the lookup is the one handle_diagnostic has made before it calls
\* check_links, so it finds the document.
scan_broken(req_uri, state, re, kind, words) ==
    LET ranges == find_broken_link_ref(ast_for_uri(state, req_uri)[1], re)
    IN  [k \in 1..Len(ranges) |->
            BrokenLink(kind, ranges[k].range, words \o ranges[k].text \o <<Tick>>)]

handle_broken_ref(req_uri, state) ==
    scan_broken(req_uri, state, "ref", "LinkRefNotFound",
                <<"Link reference to non-existent link definition ", Tick>>)

handle_broken_footnote_ref(req_uri, state) ==
    scan_broken(req_uri, state, "footnote", "FootnoteRefNotFound",
                <<"Footnote reference to non-existent footnote definition ", Tick>>)

handle_invalid_link(req_uri, state) ==
    scan_broken(req_uri, state, "invalid", "IvalidSyntax", <<"Invalid Link ", Tick>>)

\* Path::file_name of the path of a file Url
file_name(uri) == uri.path[Len(uri.path)]

handle_broken_link(state, link, order) ==
    LET resolved_link == resolve_link(link, state, order)
    IN  CASE resolved_link.kind = "File" ->
               IF link.position # None /\ find_char(link.url, "#") # 0
               THEN <<BrokenLink("ExternalHeadingNotFound",
                          range_from_position(link.position[1]),
                          <<"Link to non-existent heading ", Tick>> \o link.url
                              \o <<Tick, " in file ", Tick>> \o file_name(resolved_link.file_uri[1])
                              \o <<Tick>>)>>
               ELSE <<>>
          [] resolved_link.kind = "Unresolved" ->
               IF link.position # None
               THEN <<BrokenLink("FileNotFound", range_from_position(link.position[1]),
                          <<"Link to non-existent file ", Tick>> \o link.url \o <<Tick>>)>>
               ELSE <<>>
          [] OTHER -> <<>>

handle_broken_heading_link(link, req_uri, state) ==
    LET ast == ast_for_uri(state, req_uri)
        found == IF ast = None THEN None ELSE find_heading_for_link(ast[1], link)
    IN  IF link.position # None /\ found = None
        THEN Some(BrokenLink("HeadingNotFound", range_from_position(link.position[1]),
                      <<"Link to non-existent heading ", Tick>> \o link.url \o <<Tick>>))
        ELSE None

RECURSIVE check_links(_, _, _, _)
check_links(ast, req_uri, state, order) ==
    unique(IF has_children(ast)
           THEN extend([k \in 1..Len(ast.children) |->
                    LET child == ast.children[k]
                    IN  CASE child.type = "Link" /\ starts_with(child.url, <<"#">>) ->
                               handle_broken_heading_link(child, req_uri, state)
                          [] child.type = "Link" /\ ~starts_with(child.url, <<"#">>) ->
                               handle_broken_link(state, child, order)
                          [] child.type = "Text" ->
                               (IF contains(child.value, <<"]", "(">>)
                                THEN handle_invalid_link(req_uri, state) ELSE <<>>)
                                   \o (IF contains(child.value, <<"]", "[">>)
                                       THEN handle_broken_ref(req_uri, state) ELSE <<>>)
                                   \o (IF contains(child.value, <<"[", "^">>)
                                       THEN handle_broken_footnote_ref(req_uri, state)
                                       ELSE <<>>)
                          [] OTHER -> check_links(child, req_uri, state, order)])
           ELSE <<>>)

\* Server::handle_diagnostic: the findings of check_links, and the diagnostics
\* published from them
Diagnostic(it) == [range |-> it.range, severity |-> "ERROR", message |-> it.message]

handle_diagnostic(req_uri, state, order) ==
    LET ast == ast_for_uri(state, req_uri)
        findings == check_links(ast[1], req_uri, state, order)
    IN  IF ast = None THEN Panicked
        ELSE Returned([findings |-> findings,
                       diagnostics |-> [k \in 1..Len(findings) |-> Diagnostic(findings[k])]])

(***************************************************************************)
(* rename.rs: prepare_rename                                               *)
(***************************************************************************)
prepare_rename_range(node) ==
    CASE node.type = "Heading" -> heading_rename_range(node)
      [] node.type = "LinkReference" -> link_ref_rename_range(node)
      [] node.type = "Definition" -> definition_rename_range(node)
      [] node.type = "FootnoteReference" -> footnote_ref_rename_range(node)
      [] node.type = "FootnoteDefinition" -> footnote_def_rename_range(node)
      [] OTHER -> None

prepare_rename(req_uri, req_pos, state) ==
    LET ast == ast_for_uri(state, req_uri)
        node == IF ast = None THEN None
                ELSE find_renameable_for_position(ast[1], req_pos)
    IN  IF node = None THEN Returned(None)
        ELSE Returned(prepare_rename_range(node[1]))

(***************************************************************************)
(* hover.rs: the text shown for a link to a heading                        *)
(***************************************************************************)
find_heading_for_url(node, link_url) ==
    find_first(SelectSeq(ast_iterator(<<node>>), LAMBDA n :
        /\ n.type = "Heading"
        /\ n.children # <<>>
        /\ n.children[1].type = "Text"
        /\ n.children[1].value = remove_char(link_url, "#")))

find_next_heading(node, end_line, depth) ==
    find_first(SelectSeq(ast_iterator(<<node>>), LAMBDA n :
        /\ n.type = "Heading"
        /\ n.position # None
        /\ end_line < n.position[1].start.line
        /\ depth = n.depth))

\* every line with a line feed behind it
RECURSIVE join_lines(_)
join_lines(ls) ==
    IF ls = <<>> THEN <<>> ELSE Head(ls) \o <<"\n">> \o join_lines(Tail(ls))

\* Panicked: the unwrap of a heading without a position
handle_heading_links(ast, link, text) ==
    LET linked_heading == find_heading_for_url(ast, link.url)
        heading == linked_heading[1]
        next_heading == find_next_heading(ast, heading.position[1].end.line, heading.depth)
        start_line == heading.position[1].start.line
        buffer_lines == lines(text)
    IN  IF linked_heading = None THEN Returned(<<>>)
        ELSE IF heading.position = None THEN Panicked
        ELSE IF next_heading # None /\ next_heading[1].position = None THEN Panicked
        ELSE IF next_heading # None
        THEN Returned(join_lines(SubSeq(buffer_lines, start_line,
                                        next_heading[1].position[1].start.line - 1)))
        ELSE Returned(join_lines(SubSeq(buffer_lines, start_line, Len(buffer_lines))))

(***************************************************************************)
(* state.rs: the text of a document by range and by position               *)
(***************************************************************************)
\* str::get(a..) and str::get(..b): None when the index is behind the end
get_from(line, a) == IF a <= Len(line) THEN Some(SubSeq(line, a + 1, Len(line))) ELSE None

get_to(line, b) == IF b <= Len(line) THEN Some(SubSeq(line, 1, b)) ELSE None

\* Itertools::join
RECURSIVE join(_, _)
join(ss, sep) ==
    IF ss = <<>> THEN <<>>
    ELSE IF Len(ss) = 1 THEN ss[1]
    ELSE ss[1] \o sep \o join(Tail(ss), sep)

\* what the filter_map of buffer_range_for_uri keeps of line line_num (0-indexed)
range_of_line(line, line_num, range) ==
    IF line_num = range.start.line THEN get_from(line, range.start.character)
    ELSE IF line_num = range.end.line THEN get_to(line, range.end.character)
    ELSE IF line_num >= range.start.line /\ line_num <= range.end.line THEN Some(line)
    ELSE None

buffer_range_for_uri(state, uri, range) ==
    LET doc == buffer_for_uri(state, uri)
        ls == lines(md_buffer(doc[1]))
        kept == [i \in 1..Len(ls) |-> range_of_line(ls[i], i - 1, range)]
    IN  IF doc = None THEN None
        ELSE Some(join(extend(kept), <<"\n">>))

(***************************************************************************)
(* completion.rs: completion and the four lists it dispatches to           *)
(***************************************************************************)
\* state.rs: the character `back` places before the position, on its line
char_behind(state, uri, pos, back) ==
    LET doc == buffer_for_uri(state, uri)
        ls == lines(md_buffer(doc[1]))
    IN  IF doc = None THEN None
        ELSE IF pos.line + 1 > Len(ls) THEN None
        ELSE IF pos.character < back THEN None
        ELSE IF pos.character - back + 1 > Len(ls[pos.line + 1]) THEN None
        ELSE Some(ls[pos.line + 1][pos.character - back + 1])

cursor_char(state, uri, pos) == char_behind(state, uri, pos, 1)

peek_behind_position(state, uri, pos) == char_behind(state, uri, pos, 2)

CompletionItem(label, detail) == [label |-> label, detail |-> detail]

\* completion.rs: relative_path, the path below the root without a leading
\* separator
relative_path(from, to) ==
    LET rel == strip_prefix(to, from)
    IN  IF rel = None THEN None ELSE Some(to_string_lossy(rel[1]))

\* Path::file_name
path_file_name(path) == IF path = <<>> THEN None ELSE Some(path[Len(path)])

RECURSIVE find_headings(_)
find_headings(node) ==
    IF node.type = "Heading" THEN <<node>>
    ELSE IF has_children(node)
    THEN extend([i \in 1..Len(node.children) |-> find_headings(node.children[i])])
    ELSE <<>>

RECURSIVE find_defintions(_)
find_defintions(node) ==
    IF node.type = "Definition" THEN <<node>>
    ELSE IF has_children(node)
    THEN extend([i \in 1..Len(node.children) |-> find_defintions(node.children[i])])
    ELSE <<>>

RECURSIVE find_footnote_definitions(_)
find_footnote_definitions(node) ==
    IF node.type = "FootnoteDefinition" THEN <<node>>
    ELSE IF has_children(node)
    THEN extend([i \in 1..Len(node.children) |-> find_footnote_definitions(node.children[i])])
    ELSE <<>>

\* the end of a detail that runs to the end of the document
DetailEnd == 999999

link_detail_range(ast, heading) ==
    LET heading_pos == heading.position[1]
        next_heading == find_next_heading(ast, heading_pos.end.line, heading.depth)
        start == LspPosition(heading_pos.start.line - 1, heading_pos.start.column - 1)
    IN  IF heading.position = None THEN None
        ELSE IF next_heading # None
        THEN IF next_heading[1].position = None THEN None
             ELSE Some(Range(start, LspPosition(next_heading[1].position[1].start.line,
                                                next_heading[1].position[1].end.line)))
        ELSE Some(Range(start, LspPosition(DetailEnd, DetailEnd)))

\* collect::<Option<Vec<_>>>: nothing when one of the items is nothing
collect(items) ==
    IF \E i \in 1..Len(items) : items[i] = None THEN None
    ELSE Some([i \in 1..Len(items) |-> items[i][1]])

\* the closure of link_completion and of wikilink_completion on one heading
\* of the document url; they differ in the label
heading_item(state, url, heading, root_uri, req_filename, wiki) ==
    LET file_path == to_file_path(url)
        rel == relative_path(root_uri, file_path[1])
        heading_text == get_heading_text(heading)
        range == link_detail_range(state.md_files[url].ast, heading)
        detail == buffer_range_for_uri(state, url, range[1])
        path == split_once(rel[1], ".")
    IN  IF file_path = None THEN None
        ELSE IF rel = None THEN None
        ELSE IF heading_text = None THEN None
        ELSE IF range = None THEN None
        ELSE IF detail = None THEN None
        ELSE IF rel[1] = req_filename
        THEN Some(CompletionItem(<<"#">> \o (IF wiki THEN heading_text[1]
                                            ELSE slug(heading_text[1])),
                                 detail[1]))
        ELSE IF wiki
        THEN IF path = None THEN None
             ELSE Some(CompletionItem(path[1][1] \o <<"#">> \o heading_text[1], detail[1]))
        ELSE Some(CompletionItem(rel[1] \o <<"#">> \o slug(heading_text[1]), detail[1]))

\* md_files.iter().flat_map(..): the items of every document, in the order
\* the map iterates in
heading_items(state, order, root_uri, req_filename, wiki) ==
    extend([k \in 1..Len(order) |->
        LET headings == find_headings(state.md_files[order[k]].ast)
        IN  [i \in 1..Len(headings) |->
                heading_item(state, order[k], headings[i], root_uri, req_filename, wiki)]])

link_completion(req_uri, state, order) ==
    LET root_uri == to_file_path(state.workspace_folder[1].uri)
        req_filepath == to_file_path(req_uri)
        req_filename == path_file_name(req_filepath[1])
    IN  IF state.workspace_folder = None THEN None
        ELSE IF root_uri = None THEN None
        ELSE IF req_filepath = None THEN None
        ELSE IF req_filename = None THEN None
        ELSE collect(heading_items(state, order, root_uri[1], req_filename[1], FALSE))

wikilink_completion(req_uri, state, order) ==
    LET root_uri == state.workspace_folder[1].uri.path
        req_filepath == to_file_path(req_uri)
        req_filename == path_file_name(req_filepath[1])
    IN  IF state.workspace_folder = None THEN None
        ELSE IF req_filepath = None THEN None
        ELSE IF req_filename = None THEN None
        ELSE collect(heading_items(state, order, root_uri, req_filename[1], TRUE))

link_ref_completion(req_uri, state) ==
    LET ast == ast_for_uri(state, req_uri)
        definitions == find_defintions(ast[1])
    IN  IF ast = None THEN None
        ELSE Some([i \in 1..Len(definitions) |->
                      CompletionItem(definitions[i].identifier, definitions[i].url)])

\* the first Text of the paragraphs of a footnote definition
get_footnote_def_text(footnote_def) ==
    LET texts == extend([i \in 1..Len(footnote_def.children) |->
                    IF footnote_def.children[i].type = "Paragraph"
                    THEN SelectSeq(footnote_def.children[i].children,
                                   LAMBDA n : n.type = "Text")
                    ELSE <<>>])
    IN  find_first(texts)

footnote_ref_completion(req_uri, state) ==
    LET ast == ast_for_uri(state, req_uri)
        footnote_defs == find_footnote_definitions(ast[1])
    IN  IF ast = None THEN None
        ELSE collect([i \in 1..Len(footnote_defs) |->
                 LET text == get_footnote_def_text(footnote_defs[i])
                 IN  IF text = None THEN None
                     ELSE Some(CompletionItem(footnote_defs[i].identifier, text[1].value))])

\* context is the CompletionContext of the request, if it has one, reduced
\* to its trigger_character
completion(req_uri, position, context, state, order) ==
    LET cursor == cursor_char(state, req_uri, position)
        trigger_character == IF context # None THEN context[1] ELSE cursor
        peek_behind == peek_behind_position(state, req_uri, position)
    IN  IF trigger_character = Some("(") /\ peek_behind = Some("]")
        THEN link_completion(req_uri, state, order)
        ELSE IF trigger_character = Some("[") /\ peek_behind = Some("[")
        THEN wikilink_completion(req_uri, state, order)
        ELSE IF trigger_character = Some("^") /\ peek_behind = Some("[")
        THEN footnote_ref_completion(req_uri, state)
        ELSE IF trigger_character = Some("[")
        THEN link_ref_completion(req_uri, state)
        ELSE None

(***************************************************************************)
(* The bounded inputs                                                      *)
(***************************************************************************)
MaxFiles == 2

MaxBlocks == 2

sAb == <<"A", " ", "b">>

sa_b == <<"a", "-", "b">>

sCsharp == <<"c", "#">>

RootW == <<"w">>

RootX == <<"x">>

NameA == <<"a", ".", "m", "d">>

NameB == <<"b", ".", "m", "d">>

NameTxt == <<"c">>

UrlWA == Url("file", <<RootW, NameA>>)

UrlWB == Url("file", <<RootW, NameB>>)

UrlXA == Url("file", <<RootX, NameA>>)

Urls == {UrlWA, UrlWB, UrlXA}

FolderW == [uri |-> Url("file", <<RootW>>)]

\* the blocks the documents of the resolver's runs are made of
HeadingBlocks ==
    {BHeading(1, <<IText(sAb)>>), BHeading(2, <<IText(sCsharp)>>),
     BHeading(1, <<IEmph(sAb), IText(sa_b)>>)}

SeqsUpTo(S, n) == UNION {[1..k -> S] : k \in 0..n}

Buffers == SeqsUpTo(HeadingBlocks, MaxBlocks)

\* what the files on disk contain when the workspace is indexed
DiskBuffers ==
    {<<BHeading(1, <<IText(sAb)>>)>>,
     <<BHeading(2, <<IText(sCsharp)>>), BHeading(1, <<IText(sAb)>>)>>}

DiskPaths == {<<RootW, NameA>>, <<RootW, NameB>>, <<RootW, NameTxt>>, <<RootX, NameA>>}

LinkUrls ==
    {<<"#">> \o sa_b, <<"#">> \o sAb, <<"#", "A", " ", "B">>, <<"#">> \o sCsharp,
     <<"#", "c">>, <<"#", "z">>,
     <<"/">> \o NameA, <<"/", "a">>, <<"/", "b">>, NameA,
     <<"/", "a", "#">> \o sa_b, <<"/">> \o NameA \o <<"#">> \o sAb,
     <<"/">> \o NameA \o <<"#", "z">>, <<"/">> \o NameB \o <<"#", "c">>,
     <<"/", "%", "6", "2">> \o MD \o <<"#", "c">>, <<"/", "b", "#", "A", " ", "B">>,
     HTTP, HTTP \o <<"#">> \o sa_b, HTTP \o <<"/">> \o NameA}

\* standard links, and the wiki links [[target]] of the same targets
Links == {Link(u, t, None, <<>>) : u \in LinkUrls, t \in {None, Some("wikilink")}}

(***************************************************************************)
(* The requests.  The server takes one message at a time (Server::run):    *)
(* a query is answered from the store as it is, and the next message is    *)
(* taken when the answer is out.                                           *)
(***************************************************************************)
Request(op, link, order, uri, position, text) ==
    [op |-> op, link |-> link, order |-> order, uri |-> uri,
     position |-> position, text |-> text]

Idle == Request("idle", None, <<>>, None, None, <<>>)

NoResult == [kind |-> "none"]

Init ==
    /\ md_files = <<>>
    /\ workspace_folder = None
    /\ req = Idle
    /\ res = NoResult

SetWorkspaceFolder(folder) ==
    /\ req.op = "idle"
    /\ workspace_folder' = Some(folder)
    /\ UNCHANGED <<md_files, req, res>>

SetBuffer(uri, buffer) ==
    /\ req.op = "idle"
    /\ uri \in DOMAIN md_files \/ Cardinality(DOMAIN md_files) < MaxFiles
    /\ md_files' = set_buffer(State, uri, buffer)
    /\ UNCHANGED <<workspace_folder, req, res>>

IndexMdFiles(workspace_folders, disk) ==
    /\ req.op = "idle"
    /\ Cardinality(find_md_files(workspace_folders, disk)) <= MaxFiles
    /\ md_files' = index_md_files(workspace_folders, disk)
    /\ UNCHANGED <<workspace_folder, req, res>>

ResolveLink(link, order) ==
    /\ req.op = "idle"
    /\ req' = Request("resolve_link", Some(link), order, None, None, <<>>)
    /\ res' = resolve_link(link, State, order)
    /\ UNCHANGED <<md_files, workspace_folder>>

Respond ==
    /\ req.op # "idle"
    /\ req' = Idle
    /\ res' = NoResult
    /\ UNCHANGED <<md_files, workspace_folder>>

Next ==
    \/ SetWorkspaceFolder(FolderW)
    \/ \E uri \in Urls, buffer \in Buffers : SetBuffer(uri, buffer)
    \/ \E paths \in SUBSET DiskPaths : \E disk \in [paths -> DiskBuffers] :
          IndexMdFiles({FolderW}, disk)
    \/ \E link \in Links, order \in Orders(DOMAIN md_files) : ResolveLink(link, order)
    \/ Respond

Spec == Init /\ [][Next]_vars

(***************************************************************************)
(* The heading searches on their own: one document with one heading, whose *)
(* text and whose fragment run over all short strings of an alphabet with  *)
(* an upper-case letter, its lower-case letter, ' ', '-' and '#'.          *)
(***************************************************************************)
MaxLen == 3

Alphabet == {"A", "a", " ", "-", "#"}

Strings == SeqsUpTo(Alphabet, MaxLen)

\* s without the '#' characters it ends in
RECURSIVE trim_hashes(_)
trim_hashes(s) ==
    IF s # <<>> /\ s[Len(s)] = "#" THEN trim_hashes(SubSeq(s, 1, Len(s) - 1)) ELSE s

\* the texts an ATX heading can have: the parser trims the spaces around the
\* text and takes a final run of '#' after a space for the closing sequence
HeadingTexts ==
    {s \in Strings :
        /\ s # <<>> /\ s[1] # " " /\ s[Len(s)] # " "
        /\ trim_hashes(s) = s \/ (trim_hashes(s) # <<>> /\ trim_hashes(s)[Len(trim_hashes(s))] # " ")}

MatchBuffers ==
    {<<BHeading(1, <<IText(t)>>)>> : t \in HeadingTexts}
        \cup {<<BHeading(1, <<>>)>>, <<BHeading(1, <<IEmph(<<"a">>), IText(<<"a">>)>>)>>}

HeadingResult(heading) == [kind |-> "heading", heading |-> heading]

InitMatch ==
    /\ \E buffer \in MatchBuffers :
          md_files = [u \in {UrlWA} |-> MdFile(buffer, parse_wiki_links(to_mdast(buffer)))]
    /\ workspace_folder = None
    /\ req = Idle
    /\ res = NoResult

FindHeadingForLinkIdentifier(uri, link_identifier) ==
    /\ uri \in DOMAIN md_files
    /\ req' = Request("find_heading", None, <<>>, Some(uri), None, link_identifier)
    /\ res' = HeadingResult(find_heading_for_link_identifier(md_files[uri].ast, link_identifier))
    /\ UNCHANGED <<md_files, workspace_folder>>

\* the search resolve_link makes for a link "#fragment"
FindHeadingForLink(uri, fragment) ==
    /\ uri \in DOMAIN md_files
    /\ req' = Request("find_heading", None, <<>>, Some(uri), None, fragment)
    /\ res' = HeadingResult(find_heading_for_link(md_files[uri].ast,
                                Link(<<"#">> \o fragment, None, None, <<>>)))
    /\ UNCHANGED <<md_files, workspace_folder>>

NextMatch ==
    \/ \E uri \in Urls, f \in Strings : FindHeadingForLinkIdentifier(uri, f)
    \/ \E uri \in Urls, f \in Strings : FindHeadingForLink(uri, f)

SpecMatch == InitMatch /\ [][NextMatch]_vars

(***************************************************************************)
(* What the properties speak of                                            *)
(***************************************************************************)
\* every node of a tree
RECURSIVE Descendants(_)
Descendants(node) ==
    {node} \cup UNION {Descendants(node.children[i]) : i \in 1..Len(node.children)}

\* the path of a stored document relative to the workspace root
RelativePath(uri) ==
    IF workspace_folder = None \/ uri.scheme # "file" THEN None
    ELSE path_from_root(workspace_folder[1].uri.path, uri.path)

\* the stored documents whose relative path is file
DocsAt(file) == {u \in DOMAIN md_files : RelativePath(u) = Some(file)}

\* the headings of a stored document that match a fragment
MatchingHeadings(uri, fragment) ==
    {n \in Descendants(md_files[uri].ast) : heading_matches(n, remove_char(fragment, "#"))}

\* a target with ".md" appended when it does not end in it
WithMd(target) == IF ends_with(target, MD) THEN target ELSE target \o MD

Resolving == req.op = "resolve_link"

Target == req.link[1].url

FiveOutcomes == {"File", "InternalHeading", "ExternalHeading", "Http", "Unresolved"}

\* the parts of a target around its first '#'
FilePart == split_once(Target, "#")[1][1]

Fragment == split_once(Target, "#")[1][2]

HasHash == split_once(Target, "#") # None

\* nothing in the store matches the target of the link being resolved
NothingMatched ==
    /\ ~starts_with(Target, HTTP)
    /\ ~HasHash => DocsAt(WithMd(Target)) = {}
    /\ (HasHash /\ FilePart = <<>>) =>
           \A u \in DOMAIN md_files : MatchingHeadings(u, Target) = {}
    /\ (HasHash /\ FilePart # <<>>) =>
           /\ DocsAt(FilePart) = {}
           /\ DocsAt(url_decode(FilePart)) = {}
           /\ DocsAt(WithMd(FilePart)) = {}

\* C1: whatever the link and the store (an empty store, no workspace folder),
\* resolve_link ends in exactly one of File, InternalHeading, ExternalHeading,
\* Http, Unresolved, never in a failure, and in Unresolved when nothing matched.
C1_Totality ==
    Resolving =>
        /\ res.kind \in FiveOutcomes
        /\ NothingMatched => res = Unresolved

C1_Witness ==
    /\ Resolving
    /\ md_files = <<>>
    /\ workspace_folder = None
    /\ HasHash /\ FilePart # <<>>
    /\ res = Unresolved

\* C8: a target that starts with "http" resolves to Http whatever the store
\* holds, never to File, InternalHeading or ExternalHeading.
C8_HttpFirst == (Resolving /\ starts_with(Target, HTTP)) => res = Http

C8_Witness ==
    /\ Resolving
    /\ starts_with(Target, HTTP)
    /\ HasHash
    /\ \E u \in DOMAIN md_files : MatchingHeadings(u, Fragment) # {}
    /\ res = Http

\* C6: a target with no '#' that does not start with "http" gets ".md"
\* appended when it lacks it and resolves to File with the stored document
\* whose workspace-relative path is that name, to Unresolved when there is
\* none, and never to a heading.
C6_FileTarget ==
    (Resolving /\ ~HasHash /\ ~starts_with(Target, HTTP)) =>
        IF DocsAt(WithMd(Target)) = {} THEN res = Unresolved
        ELSE /\ res.kind = "File"
             /\ res.file_uri # None /\ res.file_uri[1] \in DocsAt(WithMd(Target))
             /\ res.heading = None

C6_Witness ==
    /\ Resolving
    /\ ~HasHash /\ ~starts_with(Target, HTTP) /\ ~ends_with(Target, MD)
    /\ res.kind = "File"

\* the first document of the iteration order with a heading matching the target
FirstDocWithMatch ==
    LET hits == {i \in 1..Len(req.order) : MatchingHeadings(req.order[i], Target) # {}}
    IN  IF hits = {} THEN None
        ELSE Some(req.order[CHOOSE i \in hits : \A j \in hits : i <= j])

\* C7: a target that starts with '#' is looked up in every stored document:
\* InternalHeading for the first document in iteration order whose tree has a
\* matching heading, Unresolved when no stored document has one.
C7_InternalHeading ==
    (Resolving /\ HasHash /\ FilePart = <<>>) =>
        IF FirstDocWithMatch = None THEN res = Unresolved
        ELSE /\ res.kind = "InternalHeading"
             /\ res.file_uri = FirstDocWithMatch
             /\ res.heading # None
             /\ res.heading[1] \in MatchingHeadings(FirstDocWithMatch[1], Target)

C7_Witness ==
    /\ Resolving /\ HasHash /\ FilePart = <<>>
    /\ workspace_folder = None
    /\ Cardinality(DOMAIN md_files) = 2
    /\ \A u \in DOMAIN md_files : MatchingHeadings(u, Target) # {}
    /\ res.kind = "InternalHeading"
    /\ res.file_uri = Some(req.order[1])

\* C4: a target file#fragment with a file part (and no "http" in front):
\* Unresolved when no stored document has the relative path the file part
\* names; ExternalHeading with that document and a heading of it matching the
\* fragment when there is one; File with that document otherwise.
C4_FileAndHeading ==
    (Resolving /\ HasHash /\ FilePart # <<>> /\ ~starts_with(Target, HTTP)) =>
        LET docs == DocsAt(heading_link_file(req.link[1], FilePart))
        IN  IF docs = {} THEN res = Unresolved
            ELSE /\ res.file_uri # None /\ res.file_uri[1] \in docs
                 /\ IF MatchingHeadings(res.file_uri[1], Fragment) # {}
                    THEN /\ res.kind = "ExternalHeading"
                         /\ res.heading # None
                         /\ res.heading[1] \in MatchingHeadings(res.file_uri[1], Fragment)
                    ELSE res.kind = "File" /\ res.heading = None

C4_Witness ==
    /\ Resolving /\ HasHash /\ FilePart # <<>> /\ ~starts_with(Target, HTTP)
    /\ res.kind = "File"
    /\ \E u \in DOMAIN md_files : u # res.file_uri[1] /\ MatchingHeadings(u, Fragment) # {}

\* C5 as claimed: the file part of a standard link file#fragment gets ".md"
\* appended when it lacks it, as a target without '#' does, before the lookup.
C5_AsClaimed ==
    (Resolving /\ ~is_wikilink(req.link[1]) /\ HasHash /\ FilePart # <<>>
               /\ ~starts_with(Target, HTTP)) =>
        IF DocsAt(WithMd(FilePart)) = {} THEN res = Unresolved
        ELSE res.file_uri # None /\ res.file_uri[1] \in DocsAt(WithMd(FilePart))

\* C5: the file part of a standard link file#fragment is percent-decoded and
\* looked up as written, with no ".md" appended (only a wiki link gets it):
\* the document selected is the one whose relative path is the decoded file
\* part, so "notes.md#h" selects notes.md and "notes#h" selects nothing.
C5_FilePartAsWritten ==
    (Resolving /\ ~is_wikilink(req.link[1]) /\ HasHash /\ FilePart # <<>>
               /\ ~starts_with(Target, HTTP)) =>
        IF DocsAt(url_decode(FilePart)) = {} THEN res = Unresolved
        ELSE res.file_uri # None /\ res.file_uri[1] \in DocsAt(url_decode(FilePart))

C5_Witness ==
    /\ Resolving /\ ~is_wikilink(req.link[1]) /\ HasHash /\ FilePart # <<>>
    /\ ~ends_with(FilePart, MD)
    /\ DocsAt(WithMd(FilePart)) # {}
    /\ res = Unresolved

\* the headings of a stored document
Headings(uri) == {n \in Descendants(md_files[uri].ast) : n.type = "Heading"}

\* the targets "#" + T and "#" + slug(T)
SlugTargets(T) == {<<"#">> \o T, <<"#">> \o slug(T)}

\* C3 as claimed: for every stored heading with text T, the links "#" + slug(T)
\* and "#" + T resolve to InternalHeading at that heading of that document.
C3_AsClaimed ==
    Resolving =>
        \A u \in DOMAIN md_files : \A h \in Headings(u) :
            (/\ h.children # <<>> /\ h.children[1].type = "Text"
             /\ get_heading_text(h) # None
             /\ Target \in SlugTargets(get_heading_text(h)[1])) =>
                res = ResolvedLink("InternalHeading", req.link, Some(u), Some(h))

\* h is the first heading matching the target in the first document, in
\* iteration order, that has one
FirstMatch(u, h) ==
    /\ FirstDocWithMatch = Some(u)
    /\ \A g \in MatchingHeadings(u, Target) :
           h.position[1].start.line <= g.position[1].start.line

\* C3: for every stored heading whose first child is a Text of value T without
\* '#', the links "#" + slug(T) and "#" + T resolve to InternalHeading at a
\* heading with the slug of T: the first one of the first document, in store
\* iteration order, that has one, which is that very heading when none with the
\* same slug comes before it.
C3_SlugRoundTrip ==
    Resolving =>
        \A u \in DOMAIN md_files : \A h \in Headings(u) :
            (/\ h.children # <<>> /\ h.children[1].type = "Text"
             /\ find_char(h.children[1].value, "#") = 0
             /\ Target \in SlugTargets(h.children[1].value)) =>
                /\ res.kind = "InternalHeading"
                /\ res.heading # None /\ res.file_uri # None
                /\ res.heading[1] \in Headings(res.file_uri[1])
                /\ slug(res.heading[1].children[1].value) = slug(h.children[1].value)
                /\ FirstMatch(u, h) => (res.file_uri = Some(u) /\ res.heading = Some(h))

C3_Witness ==
    /\ Resolving
    /\ \E u \in DOMAIN md_files : \E h \in Headings(u) :
          /\ h.children # <<>> /\ h.children[1].type = "Text"
          /\ Target = <<"#">> \o slug(h.children[1].value)
          /\ slug(h.children[1].value) # h.children[1].value
          /\ res = ResolvedLink("InternalHeading", req.link, Some(u), Some(h))

\* the one heading of the document searched
TheHeading == CHOOSE h \in Headings(req.uri[1]) : TRUE

FirstChildIsText(h) == h.children # <<>> /\ h.children[1].type = "Text"

\* C2 as claimed: the heading matches the fragment exactly when its first child
\* is a Text whose value, or whose slug, equals the fragment as written.
C2_AsClaimed ==
    req.op = "find_heading" =>
        (res.heading # None <=>
            /\ FirstChildIsText(TheHeading)
            /\ \/ TheHeading.children[1].value = req.text
               \/ slug(TheHeading.children[1].value) = req.text)

\* C2: the heading matches the fragment exactly when its first child is a Text
\* whose value equals the fragment without its '#' characters, or whose slug
\* equals the slug of that fragment: the fragment is lower-cased and hyphenated
\* as well, so "MY HEADING" does match the heading "My Heading".
C2_MatchRule ==
    req.op = "find_heading" =>
        /\ res.heading # None <=>
              /\ FirstChildIsText(TheHeading)
              /\ \/ TheHeading.children[1].value = remove_char(req.text, "#")
                 \/ replace_char(to_lowercase(TheHeading.children[1].value), " ", "-")
                        = replace_char(to_lowercase(remove_char(req.text, "#")), " ", "-")
        /\ res.heading # None => res.heading = Some(TheHeading)

\* an upper-case fragment found for a heading of mixed case
C2_Witness ==
    /\ req.op = "find_heading"
    /\ res.heading # None
    /\ TheHeading.children[1].value = <<"A", " ", "a">>
    /\ req.text = <<"A", " ", "A">>

(***************************************************************************)
(* The reference queries: references, goto definition and rename over      *)
(* documents made of definitions and of link references to them.  A        *)
(* reference is one to the parser only when the document defines its       *)
(* identifier, so the buffers drawn define every identifier they use.      *)
(***************************************************************************)
MaxRefBlocks == 3

MaxChar == 3

sT == <<"t">>

sI == <<"i">>

sJ == <<"j">>

sU == <<"/", "u">>

sNew == <<"n", "e", "w">>

RefBlocks ==
    {BDef(sI, sU), BDef(sJ, sU),
     BPara(<<IRef(sT, sI, TRUE)>>), BPara(<<IRef(sT, sI, FALSE)>>),
     BPara(<<IRef(sT, sJ, TRUE)>>), BHeading(1, <<IRef(sT, sI, TRUE)>>)}

defined_ids(buffer) == {buffer[k].id : k \in {k \in 1..Len(buffer) : buffer[k].k = "def"}}

RefBuffers ==
    {buffer \in SeqsUpTo(RefBlocks, MaxRefBlocks) :
        \A k \in 1..Len(buffer) : \A n \in 1..Len(buffer[k].inl) :
            buffer[k].inl[n].k = "ref" => buffer[k].inl[n].id \in defined_ids(buffer)}

\* the other document of the store, with references of its own to "i"
OtherBuffers == {<<BPara(<<IRef(sT, sI, TRUE)>>), BDef(sI, sU)>>}

RefUrls == {UrlWA, UrlWB}

Lines == 0..(2 * MaxRefBlocks - 2)

Characters == 0..MaxChar

Positions == {LspPosition(line, character) : line \in Lines, character \in Characters}

Response(op, outcome) == [kind |-> op, panic |-> outcome.panic, value |-> outcome.value]

References(uri, line, character, order) ==
    /\ req.op = "idle"
    /\ req' = Request("references", None, order, Some(uri),
                      Some(LspPosition(line, character)), <<>>)
    /\ res' = Response("references", references(uri, line, character, State, order))
    /\ UNCHANGED <<md_files, workspace_folder>>

Definition(uri, line, character, order) ==
    /\ req.op = "idle"
    /\ req' = Request("definition", None, order, Some(uri),
                      Some(LspPosition(line, character)), <<>>)
    /\ res' = Response("definition", definition(uri, line, character, State, order))
    /\ UNCHANGED <<md_files, workspace_folder>>

Rename(new_name, uri, position, order) ==
    /\ req.op = "idle"
    /\ req' = Request("rename", None, order, Some(uri), Some(position), new_name)
    /\ res' = Response("rename", rename(new_name, uri, position, State, order))
    /\ UNCHANGED <<md_files, workspace_folder>>

NextRefs ==
    \/ \E buffer \in RefBuffers : SetBuffer(UrlWA, buffer)
    \/ \E buffer \in OtherBuffers : SetBuffer(UrlWB, buffer)
    \/ \E uri \in RefUrls, line \in Lines, character \in Characters,
          order \in Orders(DOMAIN md_files) : References(uri, line, character, order)
    \/ \E uri \in RefUrls, line \in Lines, character \in Characters,
          order \in Orders(DOMAIN md_files) : Definition(uri, line, character, order)
    \/ \E uri \in RefUrls, position \in Positions, order \in Orders(DOMAIN md_files) :
          Rename(sNew, uri, position, order)
    \/ Respond

SpecRefs == Init /\ [][NextRefs]_vars

(***************************************************************************)
(* Properties of the reference queries                                     *)
(***************************************************************************)
\* the nodes of a type with an identifier, in a stored document
NodesOf(uri, type, identifier) ==
    {n \in Descendants(md_files[uri].ast) : n.type = type /\ n.identifier = identifier}

\* the Definitions of a stored document that are the only one of their
\* identifier
Definitions(uri) ==
    {d \in Descendants(md_files[uri].ast) :
        d.type = "Definition" /\ NodesOf(uri, "Definition", d.identifier) = {d}}

\* the span of a node, 0-indexed
Span(n) ==
    [start |-> [line |-> n.position[1].start.line - 1,
                character |-> n.position[1].start.column - 1],
     end |-> [line |-> n.position[1].end.line - 1,
              character |-> n.position[1].end.column - 1]]

\* the queried position is inside the span of n
At(n) ==
    /\ req.position[1].line = Span(n).start.line
    /\ req.position[1].character >= Span(n).start.character
    /\ req.position[1].character < Span(n).end.character

Elements(s) == {s[k] : k \in 1..Len(s)}

\* C9 (as stated): in a document with a Definition d of identifier i and N
\* LinkReferences of identifier i, references at d returns exactly the N
\* spans of those link references, all in that document, and goto definition
\* at each of those link references returns the location of d
C9_AsClaimed ==
    /\ req.op = "references" /\ req.uri[1] \in DOMAIN md_files =>
          \A d \in Definitions(req.uri[1]) :
              At(d) =>
                  LET refs == NodesOf(req.uri[1], "LinkReference", d.identifier)
                  IN  /\ ~res.panic
                      /\ res.value # None
                      /\ Len(res.value[1]) = Cardinality(refs)
                      /\ Elements(res.value[1])
                             = {[uri |-> req.uri[1], range |-> Span(r)] : r \in refs}
    /\ req.op = "definition" /\ req.uri[1] \in DOMAIN md_files =>
          \A d \in Definitions(req.uri[1]) :
              \A r \in NodesOf(req.uri[1], "LinkReference", d.identifier) :
                  At(r) =>
                      /\ ~res.panic
                      /\ res.value = Some([uri |-> req.uri[1], range |-> Span(d)])

\* C10 (as stated): renaming at a Definition whose identifier N LinkReferences
\* of the document have plans N+1 edits, each carrying the new name, all
\* under that one document
C10_AsClaimed ==
    req.op = "rename" /\ req.uri[1] \in DOMAIN md_files =>
        \A d \in Definitions(req.uri[1]) :
            At(d) =>
                LET refs == NodesOf(req.uri[1], "LinkReference", d.identifier)
                IN  /\ ~res.panic
                    /\ res.value # None
                    /\ DOMAIN res.value[1] = {req.uri[1]}
                    /\ Len(res.value[1][req.uri[1]]) = Cardinality(refs) + 1
                    /\ \A e \in Elements(res.value[1][req.uri[1]]) : e.new_text = req.text

\* a node lies inside a Heading of the document
InHeading(uri, n) ==
    \E h \in Descendants(md_files[uri].ast) : h.type = "Heading" /\ n \in Descendants(h) \ {h}

\* C9: goto definition at a link reference written in a heading, its
\* identifier defined once in the document, has come back with nothing
C9_Witness ==
    /\ req.op = "definition"
    /\ req.uri[1] \in DOMAIN md_files
    /\ \E d \in Definitions(req.uri[1]) :
           \E r \in NodesOf(req.uri[1], "LinkReference", d.identifier) :
               At(r) /\ InHeading(req.uri[1], r)
    /\ ~res.panic
    /\ res.value = None

\* C10: a rename at a Definition with one link reference, whose label is
\* emphasised, has planned the edit of the definition alone
C10_Witness ==
    /\ req.op = "rename"
    /\ req.uri[1] \in DOMAIN md_files
    /\ \E d \in Definitions(req.uri[1]) :
           /\ At(d)
           /\ \E r \in Descendants(md_files[req.uri[1]].ast) :
                  /\ NodesOf(req.uri[1], "LinkReference", d.identifier) = {r}
                  /\ get_text_child(r.children) = None
    /\ ~res.panic
    /\ res.value # None
    /\ DOMAIN res.value[1] = {req.uri[1]}
    /\ Len(res.value[1][req.uri[1]]) = 1

(***************************************************************************)
(* The containment closures of the two position searches, applied to the   *)
(* nodes of parsed documents.                                              *)
(***************************************************************************)
MaxLine == 4

MaxColumn == 7

MaxNodes == 14

sWrapped == <<"a", "\n", "b">>

sPrefix == <<"x", "x", "x", "x", "x", "x", "x">>

ContainBuffers ==
    {<<BHeading(1, <<IText(sT)>>), BPara(<<IText(sPrefix), ILink(sWrapped, sU)>>)>>,
     <<BPara(<<ILink(sT, sU)>>), BHeading(2, <<ILink(sT, sU)>>)>>,
     <<BPara(<<IRef(sT, sI, TRUE), IFnRef(sI)>>), BDef(sI, sU), BFnDef(sI, <<IText(sT)>>)>>,
     <<BPara(<<IText(sT), IRef(sWrapped, sI, TRUE)>>), BDef(sI, sU)>>}

LinkableContains(uri, k, line, character) ==
    /\ req.op = "idle"
    /\ uri \in DOMAIN md_files
    /\ k \in 1..Len(ast_iterator(<<md_files[uri].ast>>))
    /\ req' = Request("linkable_contains", Some(ast_iterator(<<md_files[uri].ast>>)[k]),
                      <<>>, Some(uri), Some(LspPosition(line, character)), <<>>)
    /\ res' = [kind |-> "contains",
               value |-> linkable_contains(ast_iterator(<<md_files[uri].ast>>)[k],
                                           line, character)]
    /\ UNCHANGED <<md_files, workspace_folder>>

DefinitionContains(uri, k, line, character) ==
    /\ req.op = "idle"
    /\ uri \in DOMAIN md_files
    /\ k \in 1..Len(ast_iterator(<<md_files[uri].ast>>))
    /\ req' = Request("definition_contains", Some(ast_iterator(<<md_files[uri].ast>>)[k]),
                      <<>>, Some(uri), Some(LspPosition(line, character)), <<>>)
    /\ res' = [kind |-> "contains",
               value |-> definition_contains(ast_iterator(<<md_files[uri].ast>>)[k],
                                             line, character)]
    /\ UNCHANGED <<md_files, workspace_folder>>

NextContain ==
    \/ \E buffer \in ContainBuffers : SetBuffer(UrlWA, buffer)
    \/ \E k \in 1..MaxNodes, line \in 0..MaxLine, character \in 0..MaxColumn :
          LinkableContains(UrlWA, k, line, character)
    \/ \E k \in 1..MaxNodes, line \in 0..MaxLine, character \in 0..MaxColumn :
          DefinitionContains(UrlWA, k, line, character)
    \/ Respond

SpecContain == Init /\ [][NextContain]_vars

LinkableTypes == {"Heading", "Link", "LinkReference", "FootnoteReference"}

DefinitionTypes == {"Heading", "Definition", "FootnoteDefinition"}

\* the node the closure was applied to, and the position it was asked about
Asked == req.link[1]

AtStart ==
    /\ req.position[1].line = Asked.position[1].start.line - 1
    /\ req.position[1].character = Asked.position[1].start.column - 1

BelowEnd == req.position[1].line + 1 = Asked.position[1].end.line + 1

\* C11 (as stated): for a node of its family that has a span, each closure
\* accepts the start of the span, and rejects every position on the line
\* after the last line of the span
C11_AsClaimed ==
    /\ req.op = "linkable_contains" /\ Asked.type \in LinkableTypes
           /\ Asked.position # None =>
          /\ AtStart => res.value
          /\ BelowEnd => ~res.value
    /\ req.op = "definition_contains" /\ Asked.type \in DefinitionTypes
           /\ Asked.position # None =>
          /\ AtStart => res.value
          /\ BelowEnd => ~res.value

\* C11: the linkable closure has rejected the start of the span of a link
\* that is wrapped over two lines and ends left of where it starts
C11_Witness ==
    /\ req.op = "linkable_contains"
    /\ Asked.type = "Link"
    /\ Asked.position[1].end.line > Asked.position[1].start.line
    /\ Asked.position[1].end.column < Asked.position[1].start.column
    /\ AtStart
    /\ ~res.value

(***************************************************************************)
(* The wiki-link pass applied to the parse of a text                       *)
(***************************************************************************)
MaxPieces == 4

Pieces ==
    {<<"[", "[", "a", "]", "]">>, <<"[", "[">>, <<"]", "]">>, <<"a">>, <<"\n">>,
     <<"[", "[", "]", "]">>}

RECURSIVE concat(_)
concat(ss) == IF ss = <<>> THEN <<>> ELSE Head(ss) \o concat(Tail(ss))

\* the values a Text of a paragraph can have: no line break at either end,
\* no blank line inside
WikiTexts ==
    {v \in {concat(ps) : ps \in SeqsUpTo(Pieces, MaxPieces)} :
        /\ v # <<>>
        /\ v[1] # "\n" /\ v[Len(v)] # "\n"
        /\ \A k \in 1..(Len(v) - 1) : ~(v[k] = "\n" /\ v[k + 1] = "\n")}

WikiBuffers ==
    {<<BPara(<<IText(v)>>)>> : v \in WikiTexts}
        \cup {<<BPara(<<IEmph(sT), IText(v)>>)>> : v \in WikiTexts}
        \cup {<<BHeading(1, <<IText(v)>>)>> : v \in {w \in WikiTexts : find_char(w, "\n") = 0}}
        \cup {<<BPara(<<IEmph(v)>>), BPara(<<IText(v)>>)>> :
                 v \in {w \in WikiTexts : find_char(w, "\n") = 0}}

ParseWikiLinks(buffer) ==
    /\ req.op = "idle"
    /\ req' = Request("parse_wiki_links", None, <<>>, None, None, buffer)
    /\ res' = [kind |-> "ast", value |-> parse_wiki_links(to_mdast(buffer))]
    /\ UNCHANGED <<md_files, workspace_folder>>

NextWiki ==
    \/ \E buffer \in WikiBuffers : ParseWikiLinks(buffer)
    \/ Respond

SpecWiki == Init /\ [][NextWiki]_vars

\* there is a "]]" at or after from, before the line ends
HasClose(s, from) ==
    \E j \in from..(Len(s) - 1) :
        /\ s[j] = "]" /\ s[j + 1] = "]"
        /\ \A k \in from..j : s[k] # "\n"

\* the [[content]] occurrences of a text, read from the left one character
\* at a time: start is 0 outside an occurrence, and the index of the first
\* character of the content inside one; p is the point of s[k] in the
\* document
RECURSIVE Occurrences(_, _, _, _)
Occurrences(s, k, start, p) ==
    IF k > Len(s) THEN <<>>
    ELSE IF start = 0
    THEN IF k < Len(s) /\ s[k] = "[" /\ s[k + 1] = "[" /\ HasClose(s, k + 2)
         THEN <<[point |-> p]>> \o Occurrences(s, k + 2, k + 2, right(p, 2))
         ELSE Occurrences(s, k + 1, 0, advance(p, <<s[k]>>))
    ELSE IF s[k] = "]" /\ s[k + 1] = "]"
         THEN <<[content |-> SubSeq(s, start, k - 1), close |-> right(p, 2)]>>
                  \o Occurrences(s, k + 2, 0, right(p, 2))
         ELSE Occurrences(s, k + 1, start, right(p, 1))

\* the occurrences of a Text node: content, the point of the first "[" and
\* the point behind the last "]"
OccurrencesOf(text) ==
    LET o == Occurrences(text.value, 1, 0, text.position[1].start)
    IN  [k \in 1..(Len(o) \div 2) |->
            [content |-> o[2 * k].content, open |-> o[2 * k - 1].point,
             close |-> o[2 * k].close]]

RECURSIVE OccurrencesIn(_)
OccurrencesIn(children) ==
    IF children = <<>> THEN <<>>
    ELSE (IF Head(children).type = "Text" THEN OccurrencesOf(Head(children)) ELSE <<>>)
             \o OccurrencesIn(Tail(children))

\* after is before with one Link per occurrence appended to the parent of
\* the Text the occurrence is in, and nothing else changed
RECURSIVE Synthesized(_, _)
Synthesized(before, after) ==
    LET n == Len(before.children)
        occ == OccurrencesIn(before.children)
    IN  /\ [after EXCEPT !.children = <<>>] = [before EXCEPT !.children = <<>>]
        /\ Len(after.children) = n + Len(occ)
        /\ \A k \in 1..n :
              IF before.children[k].type = "Text"
              THEN after.children[k] = before.children[k]
              ELSE Synthesized(before.children[k], after.children[k])
        /\ \A k \in 1..Len(occ) :
              /\ after.children[n + k].type = "Link"
              /\ after.children[n + k].url = occ[k].content
              /\ after.children[n + k].title = Some("wikilink")

\* C12: the pass leaves the tree as it was, every Text included, but for one
\* Link with title "wikilink" and the content as url per [[content]]
\* occurrence of a Text value, appended to the children of the Text's parent
C12_WikiSynthesis ==
    req.op = "parse_wiki_links" => Synthesized(to_mdast(req.text), res.value)

\* C12: the pass has run on a tree with occurrences in a Text nested in an
\* Emphasis and two occurrences in a Text of a paragraph
C12_Witness ==
    /\ req.op = "parse_wiki_links"
    /\ \E k \in 1..Len(res.value.children) :
           LET para == res.value.children[k]
           IN  /\ para.type = "Paragraph"
               /\ \E e \in 1..Len(para.children) :
                      /\ para.children[e].type = "Emphasis"
                      /\ Len(para.children[e].children) >= 2
                      /\ para.children[e].children[2].title = Some("wikilink")
    /\ \E k \in 1..Len(res.value.children) :
           Len(OccurrencesIn(to_mdast(req.text).children[k].children)) = 2

\* every Link the pass appended spans its occurrence in the document: from
\* the point of the first "[" to the point behind the last "]"
RECURSIVE Positioned(_, _)
Positioned(before, after) ==
    LET n == Len(before.children)
        occ == OccurrencesIn(before.children)
    IN  /\ \A k \in 1..n :
              before.children[k].type # "Text" =>
                  Positioned(before.children[k], after.children[k])
        /\ \A k \in 1..Len(occ) :
              after.children[n + k].position
                  = Some([start |-> occ[k].open, end |-> occ[k].close])

\* C13 (as stated): a synthesized Link is on the line of its occurrence, the
\* line of the Text plus the line offset inside the value, starts at the
\* document column of the first "[" and ends at the column behind "]]",
\* wherever the Text starts on its line
C13_AsClaimed ==
    req.op = "parse_wiki_links" => Positioned(to_mdast(req.text), res.value)

\* C13: the pass has run on the heading "# [[a]]", whose Text starts at
\* column 3, and the Link it appended spans columns 1 to 6
C13_Witness ==
    /\ req.op = "parse_wiki_links"
    /\ req.text = <<BHeading(1, <<IText(<<"[", "[", "a", "]", "]">>)>>)>>
    /\ res.value.children[1].children[1].position
           = Some(Position(1, 3, 1, 8))
    /\ res.value.children[1].children[2].type = "Link"
    /\ res.value.children[1].children[2].position
           = Some(Position(1, 1, 1, 6))

(***************************************************************************)
(* The store under indexing and set_buffer, over texts with wiki links     *)
(***************************************************************************)
sWikiA == <<"[", "[", "a", "]", "]">>

StoreBuffers ==
    {<<>>, <<BPara(<<IText(sWikiA)>>)>>, <<BPara(<<IText(sT)>>)>>,
     <<BHeading(1, <<IText(sAb)>>), BPara(<<IText(sWikiA \o <<"\n">> \o sWikiA)>>)>>,
     <<BHeading(1, <<IText(sWikiA)>>)>>, <<BPara(<<IEmph(sWikiA)>>)>>}

StoreDisk == {<<BPara(<<IText(sWikiA)>>)>>, <<BHeading(1, <<IText(sAb)>>)>>}

StorePaths == {<<RootW, NameA>>, <<RootW, NameB>>}

NextStore ==
    \/ SetWorkspaceFolder(FolderW)
    \/ \E uri \in RefUrls, buffer \in StoreBuffers : SetBuffer(uri, buffer)
    \/ \E paths \in SUBSET StorePaths : \E disk \in [paths -> StoreDisk] :
          IndexMdFiles({FolderW}, disk)

SpecStore == Init /\ [][NextStore]_vars

\* C14 (as stated): the tree of every stored document is the wiki-link pass
\* applied to the parse of its text, whether the document came from
\* indexing, was first added by set_buffer or was replaced by set_buffer
C14_AsClaimed ==
    \A uri \in DOMAIN md_files :
        md_files[uri].ast = parse_wiki_links(to_mdast(md_files[uri].buffer))

\* C14: a stored document whose text has a wiki link and whose tree is the
\* parse of the text without the pass
C14_Witness ==
    \E uri \in DOMAIN md_files :
        /\ md_files[uri].buffer = <<BPara(<<IText(sWikiA)>>)>>
        /\ md_files[uri].ast = to_mdast(md_files[uri].buffer)
        /\ md_files[uri].ast # parse_wiki_links(to_mdast(md_files[uri].buffer))

(***************************************************************************)
(* The diagnostics run and the requests on documents the store may lack    *)
(***************************************************************************)
sMissing == <<"/", "c">>

sBrokenRef == <<"[", "t", "]", "[", "i", "]">>

sBrokenFootnote == <<"[", "^", "x", "]">>

sInvalidLink == <<"[", "t", "]", "(", "a", " ", "b", ")">>

sWikiC == <<"[", "[", "c", "]", "]">>

\* the target of a link to the document b.md of the workspace
sFileB == <<"/">> \o NameB

\* a wiki link to the heading "t" of any document
sWikiT == <<"[", "[", "#", "t", "]", "]">>

\* a new name that is not its own slug
sNewName == <<"N", " ", "w">>

NewNames == {sNew, sNewName}

DiagBlocks ==
    {BHeading(1, <<IText(sT)>>),
     BPara(<<ILink(sT, sMissing)>>),
     BPara(<<ILink(sT, sMissing), IText(<<" ">>), ILink(sT, sMissing)>>),
     BPara(<<ILink(sT, sFileB)>>),
     BPara(<<ILink(sT, sFileB \o <<"#", "z">>)>>),
     BPara(<<ILink(sT, sFileB \o <<"#", "t">>)>>),
     BPara(<<ILink(sT, <<"#", "t">>)>>),
     BPara(<<ILink(sT, <<"#", "z">>)>>),
     BPara(<<IText(sBrokenRef)>>),
     BPara(<<IText(sBrokenRef \o <<" ">> \o sBrokenRef), IEmph(sBrokenRef)>>),
     BPara(<<IText(sBrokenFootnote)>>),
     BPara(<<IText(sInvalidLink), IEmph(sBrokenFootnote)>>),
     BPara(<<IText(sWikiC)>>),
     BPara(<<IText(sWikiT)>>),
     BPara(<<IEmph(sWikiC)>>),
     BPara(<<ILink(sT \o <<" ">> \o sWikiC, sMissing)>>),
     BPara(<<IRef(sT, sI, TRUE)>>),
     BDef(sI, sU)}

DiagBuffers ==
    {<<>>} \cup {<<b>> : b \in DiagBlocks}
        \cup {<<BHeading(1, <<IText(sT)>>), b>> :
                 b \in {BPara(<<ILink(sT, <<"#", "t">>)>>),
                        BPara(<<ILink(sT, sMissing)>>),
                        BPara(<<IText(sBrokenRef)>>)}}
        \cup {<<BPara(<<IText(sBrokenRef)>>), BPara(<<IText(sBrokenRef)>>)>>,
              <<BPara(<<ILink(sT, <<"#", "t">>)>>), BHeading(1, <<IText(sT)>>)>>,
              <<BPara(<<IRef(sT, sI, TRUE)>>), BDef(sI, sU)>>}

DiagOtherBuffers == {<<>>, <<BHeading(1, <<IText(sT)>>)>>}

DiagLines == 0..2

DiagPositions == {LspPosition(line, character) : line \in DiagLines, character \in Characters}

HandleDiagnostic(uri, order) ==
    /\ req.op = "idle"
    /\ req' = Request("diagnostic", None, order, Some(uri), None, <<>>)
    /\ res' = Response("diagnostic", handle_diagnostic(uri, State, order))
    /\ UNCHANGED <<md_files, workspace_folder>>

PrepareRename(uri, position) ==
    /\ req.op = "idle"
    /\ req' = Request("prepare_rename", None, <<>>, Some(uri), Some(position), <<>>)
    /\ res' = Response("prepare_rename", prepare_rename(uri, position, State))
    /\ UNCHANGED <<md_files, workspace_folder>>

NextDiag ==
    \/ SetWorkspaceFolder(FolderW)
    \/ \E buffer \in DiagBuffers : SetBuffer(UrlWA, buffer)
    \/ \E buffer \in DiagOtherBuffers : SetBuffer(UrlWB, buffer)
    \/ \E uri \in RefUrls, order \in Orders(DOMAIN md_files) : HandleDiagnostic(uri, order)
    \/ \E uri \in RefUrls, position \in DiagPositions : PrepareRename(uri, position)
    \/ \E new_name \in NewNames, uri \in RefUrls, position \in DiagPositions,
          order \in Orders(DOMAIN md_files) : Rename(new_name, uri, position, order)
    \/ \E uri \in RefUrls, line \in DiagLines, character \in Characters,
          order \in Orders(DOMAIN md_files) : References(uri, line, character, order)
    \/ \E uri \in RefUrls, line \in DiagLines, character \in Characters,
          order \in Orders(DOMAIN md_files) : Definition(uri, line, character, order)
    \/ Respond

SpecDiag == Init /\ [][NextDiag]_vars

\* a request on a document identifier that the store does not hold
OnAbsent ==
    /\ req.op \in {"definition", "references", "prepare_rename", "rename", "diagnostic"}
    /\ req.uri[1] \notin DOMAIN md_files

\* C15 (as stated): goto_definition, references, prepare_rename, rename and
\* the diagnostics run, called with a document identifier that is not in the
\* store, return no result and do not abort the process
C15_AsClaimed == OnAbsent => ~res.panic /\ res.value = None

\* C15: goto definition was asked on a document that is not in the store,
\* and the lookup it unwraps aborted the process
C15_Witness ==
    /\ req.op = "definition"
    /\ req.uri[1] \notin DOMAIN md_files
    /\ res.panic

\* the diagnostics run has answered for a document of the store
Diagnosed ==
    /\ req.op = "diagnostic"
    /\ req.uri[1] \in DOMAIN md_files

Findings == res.value.findings

\* the Links with a span in the tree of the diagnosed document
SpannedLinks ==
    {n \in Descendants(md_files[req.uri[1]].ast) : n.type = "Link" /\ n.position # None}

\* the file part of a target: what stands before its first '#'
FilePartOf(url) == IF split_once(url, "#") = None THEN url ELSE split_once(url, "#")[1][1]

\* the target names a file, and no stored document is at that path, read as
\* written, percent-decoded, or with ".md" appended
FileMissing(url) ==
    /\ ~starts_with(url, HTTP)
    /\ FilePartOf(url) # <<>>
    /\ \A file \in {FilePartOf(url), url_decode(FilePartOf(url))} :
          DocsAt(file) = {} /\ DocsAt(WithMd(file)) = {}

\* the findings of a kind that carry the span of node n
FindingsAt(kind, n) ==
    {k \in 1..Len(Findings) : Findings[k].kind = kind /\ Findings[k].range = Span(n)}

\* C18 (as stated): the diagnostics of a document yield exactly one
\* FileNotFound finding, with the link's own 0-indexed span, for every Link
\* with a span whose target is a file that no stored document matches
C18_AsClaimed ==
    Diagnosed =>
        \A n \in SpannedLinks :
            FileMissing(n.url) => Cardinality(FindingsAt("FileNotFound", n)) = 1

\* C18: the diagnosed document holds a standard link whose text holds a wiki
\* link, both to a file that is not stored; the standard link has its
\* FileNotFound finding, the wiki link inside it has none
C18_Witness ==
    /\ Diagnosed
    /\ \E n \in SpannedLinks :
          /\ FileMissing(n.url)
          /\ Cardinality(FindingsAt("FileNotFound", n)) = 1
          /\ \E k \in 1..Len(n.children) :
                /\ n.children[k] \in SpannedLinks
                /\ FileMissing(n.children[k].url)
                /\ FindingsAt("FileNotFound", n.children[k]) = {}

\* C19: the list check_links returns never holds two findings with the same
\* range and the same message, however many detection paths (the walk at
\* several nesting levels, the three scans of the text, each run once for
\* every Text that triggers it) report the same broken reference
C19_NoDuplicates ==
    Diagnosed =>
        \A j \in 1..Len(Findings), k \in 1..Len(Findings) :
            (Findings[j].range = Findings[k].range
                /\ Findings[j].message = Findings[k].message) => j = k

\* C19: the diagnosed document holds the same broken reference in three
\* Texts at two nesting levels, so the scan has run three times and has
\* reported every one of them each time; three findings are returned
C19_Witness ==
    /\ Diagnosed
    /\ md_files[req.uri[1]].buffer
           = <<BPara(<<IText(sBrokenRef \o <<" ">> \o sBrokenRef), IEmph(sBrokenRef)>>)>>
    /\ Len(Findings) = 3
    /\ \A k \in 1..3 : Findings[k].kind = "LinkRefNotFound"

\* the heading of the requested document on the line references was asked at
HeadingsAsked ==
    {h \in Descendants(md_files[req.uri[1]].ast) :
        /\ h.type = "Heading"
        /\ h.position[1].start.line <= req.position[1].line + 1
        /\ req.position[1].line + 1 <= h.position[1].end.line}

\* references has answered at a heading of a stored document
OnHeading ==
    /\ req.op = "references"
    /\ req.uri[1] \in DOMAIN md_files
    /\ HeadingsAsked # {}

\* the Links of a stored document
LinksOf(uri) == {n \in Descendants(md_files[uri].ast) : n.type = "Link"}

\* resolve_link(l), in the iteration order of the request, yields heading h
\* of document uri
ResolvesTo(l, uri, h) ==
    /\ resolve_link(l, State, req.order).kind \in {"InternalHeading", "ExternalHeading"}
    /\ resolve_link(l, State, req.order).heading = Some(h)
    /\ resolve_link(l, State, req.order).file_uri = Some(uri)

\* C16 (as stated): references on heading H of document D returns the span
\* of a link L of any stored document if and only if resolve_link(L) yields
\* the heading H of document D; a link that resolves to a heading of another
\* document is not returned
C16_AsClaimed ==
    OnHeading =>
        \A h \in HeadingsAsked :
            Elements(res.value[1])
                = UNION {{Location(u, Span(l)) :
                             l \in {n \in LinksOf(u) : ResolvesTo(n, req.uri[1], h)}} :
                         u \in DOMAIN md_files}

\* C16: references on the heading of one document has returned a link that
\* resolves to the heading of the other document
C16_Witness ==
    /\ OnHeading
    /\ \E u \in DOMAIN md_files : \E l \in LinksOf(u) :
          /\ Location(u, Span(l)) \in Elements(res.value[1])
          /\ resolve_link(l, State, req.order).file_uri # Some(req.uri[1])

\* rename has answered at a heading of a stored document
HeadingRenamed ==
    /\ req.op = "rename"
    /\ req.uri[1] \in DOMAIN md_files
    /\ HeadingsAsked # {}

\* the edits planned for the fragments of the wiki links (wiki = TRUE) or of
\* the standard links (wiki = FALSE): the fragment of a standard link ends
\* one character before the end of the link, that of a wiki link two
LinkEdits(wiki) ==
    UNION {{res.value[1][u][k] : k \in {j \in 1..Len(res.value[1][u]) :
               \E l \in LinksOf(u) :
                   /\ is_wikilink(l) = wiki
                   /\ res.value[1][u][j].range.start.line = l.position[1].start.line - 1
                   /\ res.value[1][u][j].range.end.character
                          = l.position[1].end.column - (IF wiki THEN 3 ELSE 2)}} :
           u \in DOMAIN res.value[1]}

\* C17 (as stated): when a heading is renamed, every edit planned for a
\* wiki-link reference to it substitutes the new name verbatim, and every
\* edit planned for a standard-link reference substitutes the slugified new
\* name
C17_AsClaimed ==
    HeadingRenamed =>
        /\ \A e \in LinkEdits(TRUE) : e.new_text = req.text
        /\ \A e \in LinkEdits(FALSE) : e.new_text = slug(req.text)

\* C17: a heading has been renamed to "N w"; the edit planned for a standard
\* link to it carries "N w", not the slug "n-w"
C17_Witness ==
    /\ HeadingRenamed
    /\ req.text = sNewName
    /\ \E e \in LinkEdits(FALSE) : e.new_text = sNewName /\ e.new_text # slug(sNewName)

(***************************************************************************)
(* Hover on a link to a heading, over documents of headings of several     *)
(* depths                                                                  *)
(***************************************************************************)
MaxDepth == 2

MaxHoverBlocks == 3

sA == <<"a">>

sB == <<"b">>

HoverBlocks ==
    {BHeading(depth, <<IText(t)>>) : depth \in 1..MaxDepth, t \in {sA, sB}}
        \cup {BPara(<<IText(<<"x", "\n", "y">>)>>)}

MaxLinks == 2

\* a paragraph with a link to the heading "a" and one to the heading "b",
\* and the blocks behind it
HoverBuffers ==
    {<<BPara(<<ILink(sT, <<"#", "a">>), ILink(sT, <<"#", "b">>)>>)>> \o blocks :
        blocks \in SeqsUpTo(HoverBlocks, MaxHoverBlocks)}

HandleHeadingLinks(uri, k) ==
    /\ req.op = "idle"
    /\ uri \in DOMAIN md_files
    /\ k \in 1..Len(find_links(md_files[uri].ast))
    /\ req' = Request("hover", Some(find_links(md_files[uri].ast)[k]), <<>>, Some(uri),
                      None, <<>>)
    /\ res' = Response("hover",
                  handle_heading_links(md_files[uri].ast, find_links(md_files[uri].ast)[k],
                                       md_buffer(md_files[uri].buffer)))
    /\ UNCHANGED <<md_files, workspace_folder>>

NextHover ==
    \/ \E buffer \in HoverBuffers : SetBuffer(UrlWA, buffer)
    \/ \E k \in 1..MaxLinks : HandleHeadingLinks(UrlWA, k)
    \/ Respond

SpecHover == Init /\ [][NextHover]_vars

\* the headings of the hovered document the link names
Named ==
    {h \in Descendants(md_files[req.uri[1]].ast) :
        /\ h.type = "Heading"
        /\ get_heading_text(h) = Some(remove_char(req.link[1].url, "#"))}

\* the first of them
Linked == CHOOSE h \in Named : \A g \in Named : h.position[1].start.line <= g.position[1].start.line

\* the start lines of the headings behind h that are as deep as h or shallower
Stops(h) ==
    {n.position[1].start.line : n \in {g \in Descendants(md_files[req.uri[1]].ast) :
        /\ g.type = "Heading"
        /\ g.position[1].start.line > h.position[1].end.line
        /\ g.depth <= h.depth}}

\* the line the hover text of h ends with
LastLine(h) ==
    IF Stops(h) = {} THEN Len(lines(md_buffer(md_files[req.uri[1]].buffer)))
    ELSE (CHOOSE l \in Stops(h) : \A m \in Stops(h) : l <= m) - 1

Hovered ==
    /\ req.op = "hover"
    /\ Named # {}

\* C20 (as stated): the hover text for a link to heading H is the raw text
\* of the document from the start line of H up to, and not including, the
\* start line of the next heading behind H that is as deep as H or
\* shallower, or up to the end of the document when there is none
C20_AsClaimed ==
    Hovered =>
        /\ ~res.panic
        /\ res.value = join_lines(SubSeq(lines(md_buffer(md_files[req.uri[1]].buffer)),
                                         Linked.position[1].start.line, LastLine(Linked)))

\* C20: the link names a heading of depth 2 that is followed by a heading of
\* depth 1 and then by one of depth 2; the hover text runs over the heading
\* of depth 1
C20_Witness ==
    /\ Hovered
    /\ md_files[req.uri[1]].buffer
           = <<BPara(<<ILink(sT, <<"#", "a">>), ILink(sT, <<"#", "b">>)>>),
               BHeading(2, <<IText(sA)>>), BHeading(1, <<IText(sB)>>),
               BHeading(2, <<IText(sB)>>)>>
    /\ req.link[1].url = <<"#", "a">>
    /\ res.value = <<"#", "#", " ", "a", "\n", "\n", "#", " ", "b", "\n", "\n">>

(***************************************************************************)
(* Text by range, over documents of several lines                          *)
(***************************************************************************)
RangeBuffers ==
    {<<>>, <<BPara(<<IText(sT)>>)>>,
     <<BHeading(1, <<IText(sAb)>>), BPara(<<IText(<<"x", "\n", "y", "z">>)>>)>>}

RangePositions == {LspPosition(line, character) : line \in 0..MaxChar, character \in 0..MaxChar}

BufferRangeForUri(uri, start, end) ==
    /\ req.op = "idle"
    /\ req' = Request("buffer_range_for_uri", None, <<>>, Some(uri), Some(Range(start, end)),
                      <<>>)
    /\ res' = Response("buffer_range_for_uri",
                       Returned(buffer_range_for_uri(State, uri, Range(start, end))))
    /\ UNCHANGED <<md_files, workspace_folder>>

NextRange ==
    \/ \E buffer \in RangeBuffers : SetBuffer(UrlWA, buffer)
    \/ \E uri \in RefUrls, start \in RangePositions, end \in RangePositions :
          BufferRangeForUri(uri, start, end)
    \/ Respond

SpecRange == Init /\ [][NextRange]_vars

\* the text of the requested document
Doc == md_buffer(md_files[req.uri[1]].buffer)

\* the position is a place of the text: a line of it, and a column on the
\* line or right behind it
InText(pos) ==
    /\ pos.line < Len(lines(Doc))
    /\ pos.character <= Len(lines(Doc)[pos.line + 1])

\* the number of characters of the text before the position
RECURSIVE OffsetOf(_, _)
OffsetOf(ls, pos) ==
    IF pos.line = 0 THEN pos.character
    ELSE Len(Head(ls)) + 1 + OffsetOf(Tail(ls), [pos EXCEPT !.line = @ - 1])

\* a range of the text was asked for: start and end are places of a stored
\* document, the start not behind the end
RangeAsked ==
    /\ req.op = "buffer_range_for_uri"
    /\ req.uri[1] \in DOMAIN md_files
    /\ InText(req.position[1].start) /\ InText(req.position[1].end)
    /\ OffsetOf(lines(Doc), req.position[1].start) <= OffsetOf(lines(Doc), req.position[1].end)

\* C21 (as stated): buffer_range_for_uri returns exactly the text between
\* range.start and range.end: from the start column on the first line, up to
\* the end column on the last, whole lines between, and only the characters
\* from the start column up to the end column when both are on one line
C21_AsClaimed ==
    RangeAsked =>
        res.value = Some(SubSeq(Doc, OffsetOf(lines(Doc), req.position[1].start) + 1,
                                OffsetOf(lines(Doc), req.position[1].end)))

\* C21: the characters 2 to 3 of the line "# A b" were asked for, and the
\* line from character 2 to its end came back
C21_Witness ==
    /\ RangeAsked
    /\ lines(Doc)[1] = <<"#", " ", "A", " ", "b">>
    /\ req.position[1] = Range(LspPosition(0, 2), LspPosition(0, 3))
    /\ res.value = Some(<<"A", " ", "b">>)

(***************************************************************************)
(* The traversal: AstIterator run to its end, and Iterator::find on it     *)
(***************************************************************************)

IterBlocks ==
    {BHeading(1, <<IText(sA), ILink(sT, sU), IEmph(sB)>>),
     BPara(<<ILink(sA, sU), IText(sB)>>),
     BPara(<<IText(sT)>>),
     BDef(sI, sU)}

IterBuffers == SeqsUpTo(IterBlocks, MaxBlocks)

\* the node types a find is asked for; no tree of these runs has an Html
IterTypes == {"Heading", "Paragraph", "Text", "Link", "Emphasis", "Definition", "Html"}

\* for node in AstIterator::new(root) { .. }: all the nodes it yields
AstIteratorNew(uri) ==
    /\ req.op = "idle"
    /\ uri \in DOMAIN md_files
    /\ req' = Request("ast_iterator", None, <<>>, Some(uri), None, <<>>)
    /\ res' = Response("ast_iterator", Returned(ast_iterator(<<md_files[uri].ast>>)))
    /\ UNCHANGED <<md_files, workspace_folder>>

\* AstIterator::new(root).find(|node| matches!(node, type))
Find(uri, type) ==
    /\ req.op = "idle"
    /\ uri \in DOMAIN md_files
    /\ req' = Request("find", None, <<>>, Some(uri), None, <<type>>)
    /\ res' = Response("find", Returned(find_first(
                  SelectSeq(ast_iterator(<<md_files[uri].ast>>),
                            LAMBDA node : node.type = type))))
    /\ UNCHANGED <<md_files, workspace_folder>>

NextIter ==
    \/ \E uri \in {UrlWA, UrlWB}, buffer \in IterBuffers : SetBuffer(uri, buffer)
    \/ \E uri \in {UrlWA, UrlWB} : AstIteratorNew(uri)
    \/ \E uri \in {UrlWA, UrlWB}, type \in IterTypes : Find(uri, type)
    \/ Respond

SpecIter == Init /\ [][NextIter]_vars

\* the paths of the nodes of a tree: the child indices from the root down
RECURSIVE Paths(_)
Paths(node) ==
    {<<>>} \cup UNION {{<<i>> \o p : p \in Paths(node.children[i])} :
                          i \in 1..Len(node.children)}

RECURSIVE NodeAt(_, _)
NodeAt(node, path) ==
    IF path = <<>> THEN node ELSE NodeAt(node.children[Head(path)], Tail(path))

\* path p is before path q in pre-order: p is a proper prefix of q, or p
\* takes an earlier child where the two part
Before(p, q) ==
    \/ Len(p) < Len(q) /\ SubSeq(q, 1, Len(p)) = p
    \/ \E k \in 1..Len(p) :
          /\ k <= Len(q)
          /\ SubSeq(p, 1, k - 1) = SubSeq(q, 1, k - 1)
          /\ p[k] < q[k]

\* the number of paths before p
Rank(root, p) == Cardinality({q \in Paths(root) : Before(q, p)})

Root == md_files[req.uri[1]].ast

\* C22: the iterator yields as many nodes as the tree has, the node of each
\* path at the place its pre-order rank gives it (a parent before its
\* children, the children from left to right), and a find returns the
\* yielded node of the least rank that satisfies the predicate, or nothing
\* when no node of the tree does
C22_PreOrder ==
    /\ req.op = "ast_iterator" =>
          /\ Len(res.value) = Cardinality(Paths(Root))
          /\ \A p \in Paths(Root) : res.value[Rank(Root, p) + 1] = NodeAt(Root, p)
    /\ req.op = "find" =>
          LET hits == {p \in Paths(Root) : NodeAt(Root, p).type = req.text[1]}
          IN  IF hits = {} THEN res.value = None
              ELSE \E p \in hits :
                      /\ \A q \in hits : q = p \/ Before(p, q)
                      /\ res.value = Some(NodeAt(Root, p))

\* C22: a tree of two blocks, the first a heading with three children of
\* which the second has a child of its own, was walked to its end (eleven
\* nodes, the Text of the link before the Emphasis behind it)
C22_Witness ==
    /\ req.op = "ast_iterator"
    /\ md_files[req.uri[1]].buffer
           = <<BHeading(1, <<IText(sA), ILink(sT, sU), IEmph(sB)>>),
               BPara(<<ILink(sA, sU), IText(sB)>>)>>
    /\ Len(res.value) = 11
    /\ res.value[4].type = "Link"
    /\ res.value[5].type = "Text"
    /\ res.value[6].type = "Emphasis"
    /\ res.value[8].type = "Paragraph"

(***************************************************************************)
(* Completion: documents whose first line ends with the characters a       *)
(* completion is asked behind                                              *)
(***************************************************************************)
TriggerTexts == {<<"[", "[">>, <<"]", "(">>, <<"[", "^">>, <<"x", "[">>, <<"x", "(">>}

CompletionBlocks ==
    {BHeading(1, <<IText(sAb)>>), BHeading(1, <<IEmph(sA)>>), BDef(sI, sU),
     BFnDef(sI, <<IText(sT)>>), BFnDef(sJ, <<IEmph(sB)>>)}

CompletionBuffers ==
    {<<BPara(<<IText(t)>>)>> \o blocks :
        t \in TriggerTexts, blocks \in SeqsUpTo(CompletionBlocks, MaxBlocks)}

CompletionOtherBuffers == {<<BHeading(1, <<IText(sB)>>)>>, <<BHeading(1, <<IEmph(sB)>>)>>}

\* the CompletionContext of a request: none, one without a trigger character
\* (completion invoked by hand), one with a trigger character
Contexts == {None, Some(None)} \cup {Some(Some(c)) : c \in {"(", "[", "^", "x"}}

CompletionPositions == {LspPosition(line, character) : line \in 0..1, character \in 0..3}

Completion(uri, position, context, order) ==
    /\ req.op = "idle"
    /\ req' = [op |-> "completion", link |-> None, order |-> order, uri |-> Some(uri),
               position |-> Some(position), text |-> <<>>, context |-> context]
    /\ res' = Response("completion", Returned(completion(uri, position, context, State, order)))
    /\ UNCHANGED <<md_files, workspace_folder>>

NextCompletion ==
    \/ SetWorkspaceFolder(FolderW)
    \/ \E buffer \in CompletionBuffers : SetBuffer(UrlWA, buffer)
    \/ \E buffer \in CompletionOtherBuffers : SetBuffer(UrlWB, buffer)
    \/ \E uri \in {UrlWA, UrlWB}, position \in CompletionPositions, context \in Contexts,
          order \in Orders(DOMAIN md_files) : Completion(uri, position, context, order)
    \/ Respond

SpecCompletion == Init /\ [][NextCompletion]_vars

\* the line of the requesting document the position is on, if it has one
LineAsked ==
    LET ls == lines(md_buffer(md_files[req.uri[1]].buffer))
    IN  IF req.uri[1] \in DOMAIN md_files /\ req.position[1].line < Len(ls)
        THEN ls[req.position[1].line + 1] ELSE <<>>

\* the character `back` places before the position, "" when there is none
CharAsked(back) ==
    LET at == req.position[1].character - back + 1
    IN  IF at \in 1..Len(LineAsked) THEN LineAsked[at] ELSE ""

\* the trigger character: the one the request names, else the one before
\* the cursor
TriggerAsked ==
    IF req.context = None THEN CharAsked(1)
    ELSE IF req.context[1] = None THEN "" ELSE req.context[1][1]

\* the nodes of a type of the requesting document, in document order
NodesAsked(type) ==
    SelectSeq(ast_iterator(<<md_files[req.uri[1]].ast>>), LAMBDA n : n.type = type)

Identifiers(nodes) == [i \in 1..Len(nodes) |-> nodes[i].identifier]

Labels(list) == [i \in 1..Len(list) |-> list[i].label]

Completed ==
    /\ req.op = "completion"
    /\ req.uri[1] \in DOMAIN md_files

\* C23 (as stated): on a stored document the result is decided by the
\* trigger character and the character before it: "[" after "[" gives the
\* wiki-link targets, "[" after anything else the identifiers of the
\* document's link definitions, "(" after "]" the standard link targets,
\* "^" after "[" the identifiers of the document's footnote definitions,
\* anything else no result
C23_AsClaimed ==
    Completed =>
        CASE TriggerAsked = "[" /\ CharAsked(2) = "[" ->
                res.value = wikilink_completion(req.uri[1], State, req.order)
          [] TriggerAsked = "[" /\ CharAsked(2) # "[" ->
                /\ res.value # None
                /\ Labels(res.value[1]) = Identifiers(NodesAsked("Definition"))
          [] TriggerAsked = "(" /\ CharAsked(2) = "]" ->
                res.value = link_completion(req.uri[1], State, req.order)
          [] TriggerAsked = "^" /\ CharAsked(2) = "[" ->
                /\ res.value # None
                /\ Labels(res.value[1]) = Identifiers(NodesAsked("FootnoteDefinition"))
          [] OTHER -> res.value = None

\* C23: "^" was typed behind "[" in a document with the footnote
\* definitions i, which starts with plain text, and j, which starts with an
\* emphasis; the completion has no result
C23_Witness ==
    /\ Completed
    /\ md_files[req.uri[1]].buffer
           = <<BPara(<<IText(<<"[", "^">>)>>), BFnDef(sI, <<IText(sT)>>),
               BFnDef(sJ, <<IEmph(sB)>>)>>
    /\ req.position[1] = LspPosition(0, 2)
    /\ req.context = None
    /\ res.value = None

(***************************************************************************)
(* The labels of link and wiki-link completion, over a workspace with a    *)
(* sub-directory                                                           *)
(***************************************************************************)
DirS == <<"s">>

\* w/s/a.md: the name of w/a.md, one directory down
UrlWSA == Url("file", <<RootW, DirS, NameA>>)

LabelUrls == {UrlWA, UrlWB, UrlWSA}

LabelBlocks == {BHeading(1, <<IText(sAb)>>), BHeading(2, <<IText(sB)>>)}

\* a first line to ask a completion behind, then headings
LabelBuffers ==
    {<<BPara(<<IText(t)>>)>> \o blocks :
        t \in {<<"[", "[">>, <<"]", "(">>}, blocks \in SeqsUpTo(LabelBlocks, MaxBlocks)}

NextLabel ==
    \/ SetWorkspaceFolder(FolderW)
    \/ \E uri \in LabelUrls, buffer \in LabelBuffers : SetBuffer(uri, buffer)
    \/ \E uri \in LabelUrls, order \in Orders(DOMAIN md_files) :
          Completion(uri, LspPosition(0, 2), None, order)
    \/ Respond

SpecLabel == Init /\ [][NextLabel]_vars

\* the headings the items of a link or wiki-link list are made of, each with
\* the document it is in, in the order of the list
Proposed ==
    concat([k \in 1..Len(req.order) |->
        LET hs == SelectSeq(ast_iterator(<<md_files[req.order[k]].ast>>), LAMBDA n : n.type = "Heading")
        IN  [i \in 1..Len(hs) |-> [url |-> req.order[k], heading |-> hs[i]]]])

\* a list of targets was returned: one item for each heading of the store
Listed(trigger) ==
    /\ Completed
    /\ TriggerAsked = trigger
    /\ res.value # None

\* C24 (as stated): the label of an item of a link or wiki-link list starts
\* with "#", without a path, exactly when its heading is a heading of the
\* requesting document
C24_AsClaimed ==
    (Listed("(") \/ Listed("[")) =>
        \A i \in 1..Len(res.value[1]) :
            (res.value[1][i].label[1] = "#") <=> (Proposed[i].url = req.uri[1])

\* C24: the completion was asked in w/s/a.md while w/a.md is stored too; the
\* heading of w/a.md is proposed as "#a-b", the one of w/s/a.md itself as
\* "s/a.md#b"
C24_Witness ==
    /\ Listed("(")
    /\ req.uri[1] = UrlWSA
    /\ req.order = <<UrlWA, UrlWSA>>
    /\ md_files[UrlWA].buffer = <<BPara(<<IText(<<"]", "(">>)>>), BHeading(1, <<IText(sAb)>>)>>
    /\ md_files[UrlWSA].buffer = <<BPara(<<IText(<<"]", "(">>)>>), BHeading(2, <<IText(sB)>>)>>
    /\ Labels(res.value[1]) = << <<"#", "a", "-", "b">>,
                                 <<"s", "/", "a", ".", "m", "d", "#", "b">> >>

\* the link a label makes when it is written as the target of a link
LabelLink(label) == Link(label, None, None, <<>>)

\* what the label of item i of the list resolves to
Resolved(i) == resolve_link(LabelLink(res.value[1][i].label), State, req.order)

\* C28 (as stated): the label of every item of a standard-link list, written
\* as a link target, resolves to a heading with the text of the item's
\* heading in the item's document: an InternalHeading when that is the
\* requesting document, an ExternalHeading when it is another one
C28_AsClaimed ==
    Listed("(") =>
        \A i \in 1..Len(res.value[1]) :
            /\ Resolved(i).kind = IF Proposed[i].url = req.uri[1] THEN "InternalHeading"
                                  ELSE "ExternalHeading"
            /\ Resolved(i).file_uri = Some(Proposed[i].url)
            /\ get_heading_text(Resolved(i).heading[1]) = get_heading_text(Proposed[i].heading)

\* C28: the completion was asked in w/a.md, w/b.md has the heading "A b";
\* the heading is proposed as "b.md#a-b", and a link with that target does
\* not resolve
C28_Witness ==
    /\ Listed("(")
    /\ req.uri[1] = UrlWA
    /\ DOMAIN md_files = {UrlWA, UrlWB}
    /\ md_files[UrlWA].buffer = <<BPara(<<IText(<<"]", "(">>)>>)>>
    /\ md_files[UrlWB].buffer = <<BPara(<<IText(<<"]", "(">>)>>), BHeading(1, <<IText(sAb)>>)>>
    /\ Labels(res.value[1]) = << <<"b", ".", "m", "d", "#", "a", "-", "b">> >>
    /\ Resolved(1) = Unresolved

(***************************************************************************)
(* Diagnostics and goto-definition on the same `#fragment` link, checked   *)
(* in the runs of SpecDiag                                                 *)
(***************************************************************************)
\* the links of the diagnosed document whose target starts with '#'
FragmentLinks == {n \in SpannedLinks : starts_with(n.url, <<"#">>)}

\* goto-definition asked at the first character of link n, with the
\* iteration order of the diagnostics run
GotoOn(n) ==
    definition(req.uri[1], n.position[1].start.line - 1, n.position[1].start.column - 1,
               State, req.order)

\* the spans of the headings of the diagnosed document that match the
\* fragment of link n
MatchingSpans(n) ==
    {Span(h) : h \in {g \in Descendants(md_files[req.uri[1]].ast) :
                         heading_matches(g, remove_char(n.url, "#"))}}

\* C27 (as stated): for every `#fragment` link of a diagnosed document D,
\* goto-definition on the link returns nothing when the diagnostics report
\* HeadingNotFound for it, and returns the span of a matching heading of D
\* when they report nothing
C27_AsClaimed ==
    Diagnosed =>
        \A n \in FragmentLinks :
            IF FindingsAt("HeadingNotFound", n) # {}
            THEN GotoOn(n) = Returned(None)
            ELSE /\ ~GotoOn(n).panic
                 /\ GotoOn(n).value # None
                 /\ GotoOn(n).value[1].uri = req.uri[1]
                 /\ GotoOn(n).value[1].range \in MatchingSpans(n)

\* C27: w/a.md is `[t](#t)` and has no heading, w/b.md is `# t`; the
\* diagnostics of w/a.md report HeadingNotFound for the link, and
\* goto-definition on it answers with the heading of w/b.md
C27_Witness ==
    /\ Diagnosed
    /\ req.uri[1] = UrlWA
    /\ md_files[UrlWA].buffer = <<BPara(<<ILink(sT, <<"#", "t">>)>>)>>
    /\ UrlWB \in DOMAIN md_files
    /\ md_files[UrlWB].buffer = <<BHeading(1, <<IText(sT)>>)>>
    /\ \E n \in FragmentLinks :
          /\ FindingsAt("HeadingNotFound", n) # {}
          /\ GotoOn(n) = Returned(Some(Location(UrlWB, Range(LspPosition(0, 0),
                                                             LspPosition(0, 3)))))

(***************************************************************************)
(* Rename on every kind of node: the five renameable ones, and links,      *)
(* emphasis and plain text                                                 *)
(***************************************************************************)
RenameBlocks ==
    {BHeading(1, <<IText(sT)>>), BPara(<<ILink(sT, <<"#", "t">>)>>),
     BPara(<<IRef(sT, sI, TRUE)>>), BDef(sI, sU), BPara(<<IFnRef(sI)>>),
     BFnDef(sI, <<IText(sT)>>), BPara(<<IEmph(sT), IText(sA)>>)}

RenameBuffers == SeqsUpTo(RenameBlocks, MaxBlocks)

NextRename ==
    \/ \E buffer \in RenameBuffers : SetBuffer(UrlWA, buffer)
    \/ \E buffer \in DiagOtherBuffers : SetBuffer(UrlWB, buffer)
    \/ \E uri \in RefUrls, position \in DiagPositions, order \in Orders(DOMAIN md_files) :
          Rename(sNew, uri, position, order)
    \/ \E uri \in RefUrls, position \in DiagPositions : PrepareRename(uri, position)
    \/ Respond

SpecRename == Init /\ [][NextRename]_vars

\* the nodes of the requesting document whose span holds the position of
\* the request
NodesAt ==
    {n \in Descendants(md_files[req.uri[1]].ast) :
        /\ n.position # None
        /\ req.position[1].line + 1 \in n.position[1].start.line..n.position[1].end.line
        /\ req.position[1].character + 1
               \in n.position[1].start.column..n.position[1].end.column}

\* C30: a rename, asked at any position of any document, stored or not,
\* ends in one of the five arms of its match or with no node at all: it
\* never reaches the arm marked unreachable
C30_NoUnreachable == req.op = "rename" => ~res.panic

\* C30: a rename was asked at a position inside a Link, which is no
\* renameable node, in a paragraph of a stored document; no node was found
\* and the rename has no result
C30_Witness ==
    /\ req.op = "rename"
    /\ req.uri[1] \in DOMAIN md_files
    /\ \E n \in NodesAt : n.type = "Link"
    /\ ~res.panic
    /\ res.value = None

(***************************************************************************)
(* server.rs: Server::run.  In the runs of the server req is the state of  *)
(* the loop: the messages in connection.receiver, the messages the loop    *)
(* has taken, and whether the loop has ended; res holds the messages       *)
(* written to connection.sender.  A request carries the number of its      *)
(* arrival as id.                                                          *)
(***************************************************************************)
MaxMessages == 3

Message(kind, id, method, uri, position, text) ==
    [kind |-> kind, id |-> id, method |-> method, uri |-> uri, position |-> position,
     text |-> text]

\* a response of the server, and its publishDiagnostics notification
Reply(id, result) == [kind |-> "Response", id |-> id, result |-> result]

Publish(uri, diagnostics) ==
    [kind |-> "Notification", method |-> "textDocument/publishDiagnostics", uri |-> uri,
     diagnostics |-> diagnostics]

\* a heading with a link to it behind, a link with its heading behind, a
\* link to the document b.md
ServerBuffers ==
    {<<BHeading(1, <<IText(sT)>>), BPara(<<ILink(sT, <<"#", "t">>)>>)>>,
     <<BPara(<<ILink(sT, <<"#", "t">>)>>), BHeading(1, <<IText(sT)>>)>>,
     <<BPara(<<ILink(sT, sFileB)>>)>>}

ServerPositions == {LspPosition(0, 0), LspPosition(2, 0)}

RequestMethods ==
    {"textDocument/definition", "textDocument/prepareRename", "textDocument/diagnostic",
     "workspace/executeCommand", "shutdown"}

\* the messages a client sends as message number id
Requests(id) ==
    {Message("Request", id, method, Some(uri), Some(position), <<>>) :
        method \in {"textDocument/definition", "textDocument/prepareRename"},
        uri \in RefUrls, position \in ServerPositions}
        \cup {Message("Request", id, "textDocument/diagnostic", Some(UrlWA), None, <<>>),
              Message("Request", id, "workspace/executeCommand", None, None, <<>>),
              Message("Request", id, "shutdown", None, None, <<>>)}

Notifications(id) ==
    {Message("Notification", id, method, Some(uri), None, text) :
        method \in {"textDocument/didOpen", "textDocument/didChange"},
        uri \in RefUrls, text \in ServerBuffers}
        \cup {Message("Notification", id, "textDocument/didClose", Some(uri), None, <<>>) :
                 uri \in RefUrls}
        \cup {Message("Notification", id, "workspace/didChangeWatchedFiles", None, None,
                      <<>>)}

InitServer ==
    /\ md_files = <<>>
    /\ workspace_folder = Some(FolderW)
    /\ req = [op |-> "run", receiver |-> <<>>, handled |-> <<>>, stopped |-> FALSE]
    /\ res = [kind |-> "run", sender |-> <<>>]

\* the client writes a message to the connection
Receive(msg) ==
    /\ req.op = "run"
    /\ msg.id = Len(req.handled) + Len(req.receiver) + 1
    /\ msg.id <= MaxMessages
    /\ req' = [req EXCEPT !.receiver = Append(@, msg)]
    /\ UNCHANGED <<md_files, workspace_folder, res>>

\* for msg in &self.connection.receiver: the loop is at its head and a
\* message of this kind and method is first in the channel
Next_msg(kind, methods) ==
    /\ req.op = "run"
    /\ ~req.stopped
    /\ req.receiver # <<>>
    /\ Head(req.receiver).kind = kind
    /\ Head(req.receiver).method \in methods

\* the loop after the message: back at its head, or ended
Taken(stopped) ==
    [req EXCEPT !.receiver = Tail(@), !.handled = Append(@, Head(req.receiver)),
                !.stopped = stopped]

\* a handler of a request: the unwrap of a missing document ends the
\* process, every other outcome is sent as the response with the id of the
\* request
Answer(outcome) ==
    IF outcome.panic
    THEN req' = Taken(TRUE) /\ res' = res
    ELSE /\ req' = Taken(FALSE)
         /\ res' = [res EXCEPT !.sender =
                       Append(@, Reply(Head(req.receiver).id, outcome.value))]

\* Connection::handle_shutdown: the shutdown request is answered, and run
\* returns
HandleShutdown ==
    /\ Next_msg("Request", {"shutdown"})
    /\ req' = Taken(TRUE)
    /\ res' = [res EXCEPT !.sender = Append(@, Reply(Head(req.receiver).id, None))]
    /\ UNCHANGED <<md_files, workspace_folder>>

HandleDefintion(order) ==
    /\ Next_msg("Request", {"textDocument/definition"})
    /\ Answer(definition(Head(req.receiver).uri[1], Head(req.receiver).position[1].line,
                         Head(req.receiver).position[1].character, State, order))
    /\ UNCHANGED <<md_files, workspace_folder>>

HandlePrepareRename ==
    /\ Next_msg("Request", {"textDocument/prepareRename"})
    /\ Answer(prepare_rename(Head(req.receiver).uri[1], Head(req.receiver).position[1],
                             State))
    /\ UNCHANGED <<md_files, workspace_folder>>

\* "textDocument/diagnostic" and the methods without an arm: a line in the
\* log
LogRequest ==
    /\ Next_msg("Request", {"textDocument/diagnostic", "workspace/executeCommand"})
    /\ req' = Taken(FALSE)
    /\ UNCHANGED <<md_files, workspace_folder, res>>

HandleDidOpen ==
    /\ Next_msg("Notification", {"textDocument/didOpen"})
    /\ md_files' = set_buffer(State, Head(req.receiver).uri[1], Head(req.receiver).text)
    /\ req' = Taken(FALSE)
    /\ UNCHANGED <<workspace_folder, res>>

\* set_buffer, then handle_diagnostic on the new store
HandleDidChange(order) ==
    /\ Next_msg("Notification", {"textDocument/didChange"})
    /\ md_files' = set_buffer(State, Head(req.receiver).uri[1], Head(req.receiver).text)
    /\ req' = Taken(FALSE)
    /\ order \in Orders(DOMAIN md_files')
    /\ res' = [res EXCEPT !.sender =
                  Append(@, Publish(Head(req.receiver).uri[1],
                      handle_diagnostic(Head(req.receiver).uri[1],
                          [md_files |-> md_files', workspace_folder |-> workspace_folder],
                          order).value.diagnostics))]
    /\ UNCHANGED workspace_folder

\* handle_did_close that drops the document from the store
HandleDidCloseEvicts ==
    /\ Next_msg("Notification", {"textDocument/didClose"})
    /\ req' = Taken(FALSE)
    /\ md_files' = [u \in DOMAIN md_files \ {Head(req.receiver).uri[1]} |-> md_files[u]]
    /\ UNCHANGED <<workspace_folder, res>>

HandleDidClose ==
    /\ Next_msg("Notification", {"textDocument/didClose"})
    /\ req' = Taken(FALSE)
    /\ UNCHANGED <<md_files, workspace_folder, res>>

HandleDidChangeWatchedFiles ==
    /\ Next_msg("Notification", {"workspace/didChangeWatchedFiles"})
    /\ req' = Taken(FALSE)
    /\ UNCHANGED <<md_files, workspace_folder, res>>

\* one turn of the loop
Run ==
    \/ HandleShutdown
    \/ \E order \in Orders(DOMAIN md_files) : HandleDefintion(order)
    \/ HandlePrepareRename
    \/ LogRequest
    \/ HandleDidOpen
    \/ \E order \in Orders(RefUrls) \cup Orders({UrlWA}) \cup Orders({UrlWB}) :
          HandleDidChange(order)
    \/ HandleDidClose
    \/ HandleDidChangeWatchedFiles

NextServer ==
    \/ \E id \in 1..MaxMessages :
          \E msg \in Requests(id) \cup Notifications(id) : Receive(msg)
    \/ Run

SpecServer == InitServer /\ [][NextServer]_vars

\* the messages of the runs that are checked to their end: one document, one
\* position, one text
LiveMessages(id) ==
    {msg \in Requests(id) \cup Notifications(id) :
        /\ msg.uri \in {None, Some(UrlWA)}
        /\ msg.position \in {None, Some(LspPosition(0, 0))}
        /\ msg.text \in {<<>>, <<BPara(<<ILink(sT, <<"#", "t">>)>>),
                                  BHeading(1, <<IText(sT)>>)>>}}

NextServerLive ==
    \/ \E id \in 1..MaxMessages : \E msg \in LiveMessages(id) : Receive(msg)
    \/ Run

\* the turn of the loop, whatever the handler does: the first message of
\* the channel is taken; every step of Run is one, and one is possible
\* whenever Run is
TakeMessage ==
    /\ req.op = "run"
    /\ ~req.stopped
    /\ req.receiver # <<>>
    /\ \E stopped \in BOOLEAN : req' = Taken(stopped)

\* the loop blocks on the channel and takes a message whenever one is there
SpecServerLive == InitServer /\ [][NextServerLive]_vars /\ WF_req(TakeMessage)

\* the messages in the order they arrived
Arrived == req.handled \o req.receiver

\* the places in a sequence of messages where a didOpen or didChange of
\* document uri stands
Syncs(msgs, uri) ==
    {k \in 1..Len(msgs) :
        /\ msgs[k].method \in {"textDocument/didOpen", "textDocument/didChange"}
        /\ msgs[k].uri = Some(uri)}

\* the store the notifications of a sequence of messages describe: each
\* document they name, with the text of the last of them and its tree
StoreAfter(msgs) ==
    [uri \in {u \in RefUrls : Syncs(msgs, u) # {}} |->
        LET last == CHOOSE k \in Syncs(msgs, uri) : \A j \in Syncs(msgs, uri) : j <= k
        IN  MdFile(msgs[last].text, to_mdast(msgs[last].text))]

\* the answers a query may get on the store the messages before it describe
AnswersTo(q) ==
    LET before == [md_files |-> StoreAfter(SubSeq(Arrived, 1, q.id - 1)),
                   workspace_folder |-> workspace_folder]
    IN  IF q.method = "textDocument/definition"
        THEN {definition(q.uri[1], q.position[1].line, q.position[1].character, before,
                         order).value : order \in Orders(DOMAIN before.md_files)}
        ELSE IF q.method = "textDocument/prepareRename"
        THEN {prepare_rename(q.uri[1], q.position[1], before).value}
        ELSE {None}

\* the responses sent, in the order they were sent
Responses == SelectSeq(res.sender, LAMBDA m : m.kind = "Response")

\* C25: the store is at every moment the one the notifications taken so far
\* describe, with the most recent text of each document and the tree of
\* that text; every response sent answers a request that was taken, from
\* the store described by all the messages that arrived before the request;
\* and the responses leave in the order their requests arrived
C25_InOrder ==
    req.op = "run" =>
        /\ md_files = StoreAfter(req.handled)
        /\ \A k \in 1..Len(Responses) :
              /\ Responses[k].id \in 1..Len(req.handled)
              /\ Responses[k].result \in AnswersTo(Arrived[Responses[k].id])
        /\ \A k \in 1..Len(Responses), j \in 1..Len(Responses) :
              k < j => Responses[k].id < Responses[j].id

\* C25: w/a.md was opened with a heading in its first line, changed to a
\* text with a link in the first line and the heading in the third, and
\* goto-definition at the first line was answered with the heading of the
\* third line
C25_Witness ==
    /\ req.op = "run"
    /\ Len(req.handled) = 3
    /\ req.handled[1].method = "textDocument/didOpen"
    /\ req.handled[1].text = <<BHeading(1, <<IText(sT)>>), BPara(<<ILink(sT, <<"#", "t">>)>>)>>
    /\ req.handled[2].method = "textDocument/didChange"
    /\ req.handled[2].text = <<BPara(<<ILink(sT, <<"#", "t">>)>>), BHeading(1, <<IText(sT)>>)>>
    /\ req.handled[3] = Message("Request", 3, "textDocument/definition", Some(UrlWA),
                                Some(LspPosition(0, 0)), <<>>)
    /\ req.handled[1].uri = Some(UrlWA)
    /\ req.handled[2].uri = Some(UrlWA)
    /\ Responses = <<Reply(3, Some(Location(UrlWA, Range(LspPosition(2, 0),
                                                         LspPosition(2, 3)))))>>

\* the step of the loop that takes a didClose notification
DidCloseTaken ==
    /\ req.op = "run"
    /\ req.receiver # <<>>
    /\ Head(req.receiver).method = "textDocument/didClose"
    /\ req'.handled = Append(req.handled, Head(req.receiver))

\* C26: the step that takes a didClose leaves the store as it is: every
\* document, the closed one too, keeps its text and tree, and every link of
\* every document resolves after the step to what it resolved to before
C26_StoreKept ==
    [][DidCloseTaken =>
          /\ md_files' = md_files
          /\ workspace_folder' = workspace_folder
          /\ \A u \in DOMAIN md_files : \A order \in Orders(DOMAIN md_files) :
                \A l \in LinksOf(u) :
                    resolve_link(l, [md_files |-> md_files',
                                     workspace_folder |-> workspace_folder'], order)
                        = resolve_link(l, State, order)]_vars

\* C26: w/b.md is stored and was closed by the last message taken, and the
\* link of w/a.md to b.md resolves to it
C26_Witness ==
    /\ req.op = "run"
    /\ req.handled # <<>>
    /\ req.handled[Len(req.handled)].method = "textDocument/didClose"
    /\ req.handled[Len(req.handled)].uri = Some(UrlWB)
    /\ UrlWB \in DOMAIN md_files
    /\ UrlWA \in DOMAIN md_files
    /\ \E l \in LinksOf(UrlWA) : \A order \in Orders(DOMAIN md_files) :
          /\ resolve_link(l, State, order).kind = "File"
          /\ resolve_link(l, State, order).file_uri = Some(UrlWB)

\* message i is a request that arrived before any shutdown request
Requested(i) ==
    /\ req.op = "run"
    /\ i <= Len(Arrived)
    /\ Arrived[i].kind = "Request"
    /\ \A j \in 1..i : Arrived[j].method # "shutdown"

\* the responses sent with id i
ResponsesTo(i) == {k \in 1..Len(Responses) : Responses[k].id = i}

\* C29 (as stated): every request that arrives before a shutdown request,
\* whatever its method, is in the end answered with a response that carries
\* its id, and never with more than one
C29_AsClaimed ==
    /\ \A i \in 1..MaxMessages : Requested(i) ~> (Cardinality(ResponsesTo(i)) = 1)
    /\ [](\A i \in 1..MaxMessages : Cardinality(ResponsesTo(i)) <= 1)

\* C29: the loop has taken a "textDocument/diagnostic" request, runs on, has
\* nothing left to take, and no response with the id of the request was sent
C29_Witness ==
    /\ req.op = "run"
    /\ ~req.stopped
    /\ req.receiver = <<>>
    /\ Len(req.handled) = MaxMessages
    /\ \E i \in 1..Len(req.handled) :
          /\ req.handled[i].method = "textDocument/diagnostic"
          /\ ResponsesTo(i) = {}

====
